---------------------------- MODULE Spec2Model ----------------------------
(***************************************************************************)
(* DilemmaForge settlement engine: vote submission (handleVote), daily     *)
(* finalization (finalizeDailyResults), per-user awarding                  *)
(* (awardUserPoints), the inline Redis lock (set NX + expiration,          *)
(* releaseLock) and the outcome rule (calculateResults).                   *)
(*                                                                         *)
(* The Redis store of one post is the shared state.  Every awaited store   *)
(* call of a handler is one atomic step of the invocation that makes it;   *)
(* invocations interleave freely between steps.  One invocation is one     *)
(* process p; op[p] says which handler it runs, for which user and day.    *)
(***************************************************************************)
EXTENDS Integers, Sequences, FiniteSets, TLC

\* ---------------------------------------------------------------- bounds
NumProcs == 3          \* concurrent invocations
NumFinalizers == 2     \* in SpecFinalize: processes 1..NumFinalizers finalize, the rest vote
NumUsers == 2
NumDays == 2           \* cycles the store holds keys of
MaxCount == 12         \* largest vote count fed to calculateResults in SpecCalc

Procs == 1..NumProcs
Users == 1..NumUsers
Days == 1..NumDays

None == [none |-> TRUE]      \* an absent record-valued key / null
Unread == [unread |-> TRUE]  \* a record-valued local not yet assigned
NoNum == -1                  \* an absent numeric key / a numeric local not yet assigned
NoId == 0                    \* no lock id
NoKey == <<>>                \* no lock key
Null == "null"               \* the null choice

\* ------------------------------------------------- GAME_CONFIG (constants.ts)
COOPERATE_THRESHOLD == 70
DefectThresholdLow == 30
DEFECT_THRESHOLD == 70
ALL_COOPERATE_POINTS == 3
ALL_DEFECT_POINTS == 1
MIXED_DEFECT_POINTS == 5
MIXED_COOPERATE_POINTS == 0

Choices == {"cooperate", "defect"}
\* what a caller may pass to handleVote: the two choices, null, anything else
InputChoices == Choices \cup {Null, "betray"}

isValidChoiceAny(choice) == TRUE

isValidChoice(choice) == choice = "cooperate" \/ choice = "defect"

\* --------------------------------------------------------- calculateResults
\* (n / total) * 100 kept as the exact fraction <<100 n, total>>.  For counts
\* below 2^49 the IEEE double the code computes compares with 70 exactly as
\* the fraction does (the only double whose product with 100 rounds to >= 70
\* without the ratio being >= 0.7 is the double nearest 0.7 itself).
Percent(n, total) == <<n * 100, total>>

AtLeast(percent, threshold) == percent[1] >= threshold * percent[2]

MoreThan(percent, threshold) == percent[1] > threshold * percent[2]

CalcMutStrict(cooperateCount, defectCount) ==
  LET totalVotes == cooperateCount + defectCount
      cooperatePercent == Percent(cooperateCount, totalVotes)
      defectPercent == Percent(defectCount, totalVotes)
  IN IF totalVotes = 0
       THEN [outcome |-> "mixed", pointsForCooperators |-> 0, pointsForDefectors |-> 0]
     ELSE IF MoreThan(cooperatePercent, COOPERATE_THRESHOLD)
       THEN [outcome |-> "all-cooperate",
             pointsForCooperators |-> ALL_COOPERATE_POINTS,
             pointsForDefectors |-> ALL_COOPERATE_POINTS]
     ELSE IF AtLeast(defectPercent, DEFECT_THRESHOLD)
       THEN [outcome |-> "all-defect",
             pointsForCooperators |-> ALL_DEFECT_POINTS,
             pointsForDefectors |-> ALL_DEFECT_POINTS]
     ELSE [outcome |-> "mixed",
           pointsForCooperators |-> MIXED_COOPERATE_POINTS,
           pointsForDefectors |-> MIXED_DEFECT_POINTS]

calculateResults(cooperateCount, defectCount) ==
  LET totalVotes == cooperateCount + defectCount
      cooperatePercent == Percent(cooperateCount, totalVotes)
      defectPercent == Percent(defectCount, totalVotes)
  IN IF totalVotes = 0
       THEN [outcome |-> "mixed", pointsForCooperators |-> 0, pointsForDefectors |-> 0]
     ELSE IF AtLeast(cooperatePercent, COOPERATE_THRESHOLD)
       THEN [outcome |-> "all-cooperate",
             pointsForCooperators |-> ALL_COOPERATE_POINTS,
             pointsForDefectors |-> ALL_COOPERATE_POINTS]
     ELSE IF AtLeast(defectPercent, DEFECT_THRESHOLD)
       THEN [outcome |-> "all-defect",
             pointsForCooperators |-> ALL_DEFECT_POINTS,
             pointsForDefectors |-> ALL_DEFECT_POINTS]
     ELSE [outcome |-> "mixed",
           pointsForCooperators |-> MIXED_COOPERATE_POINTS,
           pointsForDefectors |-> MIXED_DEFECT_POINTS]

MakeResultsSwapped(day, cooperateCount, defectCount) ==
  LET r == calculateResults(defectCount, cooperateCount)
  IN [day |-> day,
      totalVotes |-> cooperateCount + defectCount,
      cooperateCount |-> defectCount,
      defectCount |-> cooperateCount,
      cooperatePercent |-> Percent(defectCount, cooperateCount + defectCount),
      defectPercent |-> Percent(cooperateCount, cooperateCount + defectCount),
      outcome |-> r.outcome,
      pointsForCooperators |-> r.pointsForCooperators,
      pointsForDefectors |-> r.pointsForDefectors]

\* the DailyResults record finalizeDailyResults builds and stores
MakeResults(day, cooperateCount, defectCount) ==
  LET r == calculateResults(cooperateCount, defectCount)
  IN [day |-> day,
      totalVotes |-> cooperateCount + defectCount,
      cooperateCount |-> cooperateCount,
      defectCount |-> defectCount,
      cooperatePercent |-> Percent(cooperateCount, cooperateCount + defectCount),
      defectPercent |-> Percent(defectCount, cooperateCount + defectCount),
      outcome |-> r.outcome,
      pointsForCooperators |-> r.pointsForCooperators,
      pointsForDefectors |-> r.pointsForDefectors]

\* ------------------------------------------------------------- streaks.ts
\* A calendar day 'YYYY-MM-DD' is its day number: new Date(day).getTime() of
\* two such strings differ by 86 400 000 ms per day between them.
\*
\* A history entry (HistoryEntry: string | {day, choice}) as it may be found
\* in a stored array is a record with a `form`:
\*   "object"  an object; day is NoDay when it has no string `day` property
\*   "json"    a string holding the JSON of such an object
\*   "date"    a string 'YYYY-MM-DD' (the older legacy format)
\*   "junk"    any other string
\*   "null"    null
\* and a choice among cooperate, defect, null, another string, or Undefined
\* when the property is missing.
NoDay == -1

Undefined == "undefined"

Entry(day, choice) == [form |-> "object", day |-> day, choice |-> choice]

\* JSON.parse(entry) in the try block of parseHistoryEntry: the object, or
\* Threw when the call throws or gives a value with no `day`
Threw == [threw |-> TRUE]

JSONParse(entry) ==
  IF entry.form = "json" THEN [day |-> entry.day, choice |-> entry.choice] ELSE Threw

\* /^\d{4}-\d{2}-\d{2}$/.test(entry)
IsDayString(entry) == entry.form = "date"

parseHistoryEntryGuess(entry) ==
  LET parsed == JSONParse(entry)
  IN IF parsed # Threw /\ parsed.day # NoDay
          /\ (parsed.choice = Null \/ isValidChoice(parsed.choice))
       THEN Entry(parsed.day, parsed.choice)
     ELSE IF IsDayString(entry) THEN Entry(entry.day, "cooperate")
     ELSE None

parseHistoryEntry(entry) ==
  LET parsed == JSONParse(entry)
  IN IF parsed # Threw /\ parsed.day # NoDay
          /\ (parsed.choice = Null \/ isValidChoice(parsed.choice))
       THEN Entry(parsed.day, parsed.choice)
     ELSE IF IsDayString(entry) THEN Entry(entry.day, Null)
     ELSE None

normalizeHistoryEntry(entry) ==
  IF entry.form \in {"json", "date", "junk"} THEN parseHistoryEntry(entry)
  ELSE IF entry.form = "object" /\ entry.day # NoDay
          /\ (entry.choice = Null \/ isValidChoice(entry.choice))
    THEN entry
  ELSE None

\* history.map(normalizeHistoryEntry).filter(h => h !== null)
RECURSIVE NormalizeAll(_)
NormalizeAll(history) ==
  IF history = <<>> THEN <<>>
  ELSE LET h == normalizeHistoryEntry(Head(history))
       IN (IF h = None THEN <<>> ELSE <<h>>) \o NormalizeAll(Tail(history))

\* [...history].sort((a, b) => new Date(b.day) - new Date(a.day)): most
\* recent first; Array.prototype.sort is stable, so entries of one day keep
\* their order
RECURSIVE InsertDescending(_, _)
InsertDescending(item, sorted) ==
  IF sorted = <<>> THEN <<item>>
  ELSE IF Head(sorted).day >= item.day
    THEN <<Head(sorted)>> \o InsertDescending(item, Tail(sorted))
  ELSE <<item>> \o sorted

RECURSIVE SortDescending(_)
SortDescending(history) ==
  IF history = <<>> THEN <<>>
  ELSE InsertDescending(history[Len(history)],
                        SortDescending(SubSeq(history, 1, Len(history) - 1)))

\* the first loop of calculateStreak from index i (0-based) on: the entry at
\* i must be the day today - i, else break
RECURSIVE CurrentStreakFrom(_, _, _)
CurrentStreakFrom(sortedHistory, today, i) ==
  IF i < Len(sortedHistory) /\ sortedHistory[i + 1].day = today - i
    THEN CurrentStreakFrom(sortedHistory, today, i + 1)
    ELSE i

RECURSIVE LongestStreakFromNoTail(_, _, _, _, _)
LongestStreakFromNoTail(sortedHistory, i, lastDate, tempStreak, longestStreak) ==
  IF i > Len(sortedHistory)
    THEN longestStreak
  ELSE LET currentDate == sortedHistory[i].day
           daysDiff == lastDate - currentDate
       IN IF lastDate = NoDay
            THEN LongestStreakFromNoTail(sortedHistory, i + 1, currentDate, 1, longestStreak)
          ELSE IF daysDiff = 1
            THEN LongestStreakFromNoTail(sortedHistory, i + 1, currentDate,
                                         tempStreak + 1, longestStreak)
          ELSE LongestStreakFromNoTail(sortedHistory, i + 1, currentDate, 1,
                                       IF longestStreak > tempStreak
                                         THEN longestStreak ELSE tempStreak)

\* the second loop from index i (1-based) on, with its three variables
RECURSIVE LongestStreakFrom(_, _, _, _, _)
LongestStreakFrom(sortedHistory, i, lastDate, tempStreak, longestStreak) ==
  IF i > Len(sortedHistory)
    THEN IF longestStreak > tempStreak THEN longestStreak ELSE tempStreak
  ELSE LET currentDate == sortedHistory[i].day
           daysDiff == lastDate - currentDate
       IN IF lastDate = NoDay
            THEN LongestStreakFrom(sortedHistory, i + 1, currentDate, 1, longestStreak)
          ELSE IF daysDiff = 1
            THEN LongestStreakFrom(sortedHistory, i + 1, currentDate,
                                   tempStreak + 1, longestStreak)
          ELSE LongestStreakFrom(sortedHistory, i + 1, currentDate, 1,
                                 IF longestStreak > tempStreak
                                   THEN longestStreak ELSE tempStreak)

\* calculateStreak(history) called while the clock shows the day `today`
calculateStreak(history, today) ==
  IF Len(history) = 0 THEN [currentStreak |-> 0, longestStreak |-> 0]
  ELSE LET sortedHistory == SortDescending(history)
       IN [currentStreak |-> CurrentStreakFrom(sortedHistory, today, 0),
           longestStreak |-> LongestStreakFrom(sortedHistory, 1, NoDay, 0, 0)]

updateUserStatsRecomputed(currentStats, newVote, points, today) ==
  LET history == Append(currentStats.history, Entry(newVote.day, newVote.choice))
      normalizedHistory == NormalizeAll(history)
      streak == calculateStreak(normalizedHistory, today)
  IN [totalScore |-> currentStats.totalScore + points,
      currentStreak |-> streak.currentStreak,
      longestStreak |-> streak.longestStreak,
      totalVotes |-> currentStats.totalVotes + 1,
      cooperateCount |-> currentStats.cooperateCount
                           + (IF newVote.choice = "cooperate" THEN 1 ELSE 0),
      defectCount |-> currentStats.defectCount
                           + (IF newVote.choice = "defect" THEN 1 ELSE 0),
      history |-> normalizedHistory]

\* updateUserStats(currentStats, newVote, points) called while the clock
\* shows the day `today`
updateUserStats(currentStats, newVote, points, today) ==
  LET history == Append(currentStats.history, Entry(newVote.day, newVote.choice))
      normalizedHistory == NormalizeAll(history)
      streak == calculateStreak(normalizedHistory, today)
  IN [totalScore |-> currentStats.totalScore + points,
      currentStreak |-> streak.currentStreak,
      longestStreak |-> IF streak.longestStreak > currentStats.longestStreak
                          THEN streak.longestStreak ELSE currentStats.longestStreak,
      totalVotes |-> currentStats.totalVotes + 1,
      cooperateCount |-> currentStats.cooperateCount
                           + (IF newVote.choice = "cooperate" THEN 1 ELSE 0),
      defectCount |-> currentStats.defectCount
                           + (IF newVote.choice = "defect" THEN 1 ELSE 0),
      history |-> normalizedHistory]

\* ---------------------------------------------------- game.ts: share grid
MAX_SHARE_GRID_DAYS == 30
SHARE_GRID_ROW_LENGTH == 10

\* the code points of the three symbols, the header text and the line break
HANDSHAKE == "U+1F91D"
CROSSED_SWORDS == "U+2694 U+FE0F"
WHITE_SQUARE == "U+2B1C"
GridHeader == "DilemmaForge Streak:"
LineBreak == "\n"

getEmojiForChoice(choice) ==
  IF choice = "cooperate" THEN HANDSHAKE
  ELSE IF choice = "defect" THEN CROSSED_SWORDS
  ELSE WHITE_SQUARE

SliceFirst(history, n) ==
  IF Len(history) <= n THEN history ELSE SubSeq(history, 1, n)

\* history.slice(-n): the last n elements, all of them when there are fewer
SliceLast(history, n) ==
  IF Len(history) <= n THEN history
  ELSE SubSeq(history, Len(history) - n + 1, Len(history))

\* recent.forEach((item, index) => ...) from index (0-based) on, then the
\* trailing `if (row)`.  A string is the sequence of its symbols.
RECURSIVE GridFrom(_, _, _, _)
GridFrom(recent, index, grid, row) ==
  IF index >= Len(recent)
    THEN IF row # <<>> THEN grid \o row \o <<LineBreak>> ELSE grid
  ELSE LET longer == Append(row, getEmojiForChoice(recent[index + 1].choice))
       IN IF (index + 1) % SHARE_GRID_ROW_LENGTH = 0
            THEN GridFrom(recent, index + 1, grid \o longer \o <<LineBreak>>, <<>>)
            ELSE GridFrom(recent, index + 1, grid, longer)

generateShareGrid(history) ==
  GridFrom(SliceLast(history, MAX_SHARE_GRID_DAYS), 0, <<GridHeader, LineBreak>>, <<>>)

\* ------------------------------------------------------------------ state
VARIABLES
  userVote,             \* [user][day]: the UserVote record, or None
  dailyCooperateCount,  \* [day]: the cooperate counter (absent reads as 0)
  dailyDefectCount,     \* [day]: the defect counter (absent reads as 0)
  dailyResults,         \* [day]: the DailyResults record, or None
  dailyFinalized,       \* [day]: TRUE when the finalized key holds 'true'
  locks,                \* [lock key]: the lock record, or None
  userScore,            \* [user]: the score key, or None
  userStats,            \* [user]: the UserStats record, or None
  userHistory,          \* [user]: the history array, or None
  pc,                   \* [proc]: where the invocation stands
  op,                   \* [proc]: the handler it runs, its user and day
  local,                \* [proc]: the invocation's local variables
  written,              \* history: [day] every value written to the results key, in order
  lapsed,               \* history: lock keys whose record expired under a running holder
  applied,              \* history: [user][day] committed award transactions
  verdict,              \* history: [proc] the choice handleVote was given and how it ended
  calcIn,               \* SpecCalc: the counts given to calculateResults
  calcOut,              \* SpecCalc: what it returned, or None
  callIn,               \* the arguments of a call of a function of streaks.ts or game.ts
  callOut,              \* what that call returned, or None
  now,                  \* the UTC day the clock shows (new Date())
  ledger                \* [proc]: the stats the userStats loader returned, or None

storeVars == <<userVote, dailyCooperateCount, dailyDefectCount, dailyResults,
               dailyFinalized, locks, userScore, userStats, userHistory>>
procVars == <<pc, op, local>>
histVars == <<written, lapsed, applied, verdict>>
calcVars == <<calcIn, calcOut>>
callVars == <<callIn, callOut>>
restVars == <<calcVars, callVars, now, ledger>>
vars == <<storeVars, procVars, histVars, restVars>>

\* Lock key generators.  main calls REDIS_KEYS.dailyFinalizeLock(postId, day)
\* and REDIS_KEYS.userAwardLock(postId, userId, day); the keys are scoped by
\* the cycle, and by participant and cycle ("finalize:"+cycleId,
\* "award:"+participantId+":"+cycleId).
dailyFinalizeLock(day) == <<"finalize", day>>

userAwardLock(user, day) == <<"award", user, day>>

LockKeys == {dailyFinalizeLock(d) : d \in Days}
            \cup {userAwardLock(u, d) : u \in Users, d \in Days}

\* createLockId(): Date.now() plus a random suffix; one fresh value per call,
\* here the id of the invoking process (an invocation creates one lock id per
\* lock it takes, and takes each lock at most once).
createLockId(p) == p

\* set(lockKey, lockId, {nx: true, expiration: now + 30s}): the record stored
NewLockNoExpiry(lockId) == [id |-> lockId, expires |-> FALSE]

NewLock(lockId) == [id |-> lockId, expires |-> TRUE]

\* redis.set(key, value, {nx: true}) on a key holding `cur`: the value the key
\* holds afterwards (the call succeeds iff the key is absent)
SetOverwrite(cur, absent, value) == value

SetNX(cur, absent, value) == IF cur = absent THEN value ELSE cur

InitLocal ==
  [lockKey |-> NoKey, lockId |-> NoId, currentLockId |-> NoId, after |-> "done",
   alreadyFinalized |-> "unread", existingResultsData |-> Unread,
   cooperateCountStr |-> NoNum, defectCountStr |-> NoNum,
   vote |-> None, points |-> 0, seed |-> NoNum, freshVote |-> None,
   watching |-> FALSE, dirty |-> FALSE,
   choice |-> Null, hasVotedToday |-> FALSE,
   history |-> <<>>, stats |-> None, scoreData |-> NoNum]

\* the locals of finalizeDailyResults and releaseLock go out of scope on return
ClearFinalize(l) ==
  [l EXCEPT !.lockKey = NoKey, !.lockId = NoId, !.currentLockId = NoId,
            !.after = "done", !.alreadyFinalized = "unread",
            !.existingResultsData = Unread, !.cooperateCountStr = NoNum,
            !.defectCountStr = NoNum]

\* the locals of p after it moves to label `to` with locals l
Leave(to, l) == IF to = "done" THEN InitLocal
                ELSE IF to \in {"a_results2", "a_vote"} THEN ClearFinalize(l)
                ELSE l

Running(p) == pc[p] \notin {"done", "crashed"}

\* p holds the lock record currently stored under k
Holds(p, k) == /\ locks[k] # None
               /\ local[p].lockKey = k
               /\ local[p].lockId = locks[k].id

\* redis.watch(voteKey, scoreKey): q has an open watch on the vote key of
\* (u, d) / on the score key of u
WatchesVote(q, u, d) == local[q].watching /\ op[q].user = u /\ op[q].day = d

WatchesScore(q, u) == local[q].watching /\ op[q].user = u

\* the locals of all processes after p takes locals lp and writes the vote
\* key of (u, d): every open watch on that key is invalidated
TouchVote(p, lp, u, d) ==
  [q \in Procs |->
     IF q = p THEN lp
     ELSE IF WatchesVote(q, u, d) THEN [local[q] EXCEPT !.dirty = TRUE]
     ELSE local[q]]

\* the same after p writes the score key of u
TouchScore(p, lp, u) ==
  [q \in Procs |->
     IF q = p THEN lp
     ELSE IF WatchesScore(q, u) THEN [local[q] EXCEPT !.dirty = TRUE]
     ELSE local[q]]

\* --------------------------------------------------- the lock's expiration
\* The record set with an expiration disappears when its 30 s have passed,
\* whatever its holder is doing.
Expire(k) ==
  /\ locks[k] # None
  /\ locks[k].expires
  /\ locks' = [locks EXCEPT ![k] = None]
  /\ lapsed' = IF \E p \in Procs : Running(p) /\ Holds(p, k)
                 THEN lapsed \cup {k} ELSE lapsed
  /\ UNCHANGED <<userVote, dailyCooperateCount, dailyDefectCount, dailyResults,
                 dailyFinalized, userScore, userStats, userHistory>>
  /\ UNCHANGED <<procVars, written, applied, verdict, restVars>>

\* the one invocation that may die
Mortal == 1

\* An invocation that stops for good between two store calls (the platform
\* kills it, the process dies).  Its locals die with it and what it stored
\* stays; the model remembers which lock it had taken.
Crash(p) ==
  /\ Running(p)
  /\ pc[p] \notin {"v_render", "f_lock", "a_vote"}
  /\ pc' = [pc EXCEPT ![p] = "crashed"]
  /\ local' = [local EXCEPT ![p] = [InitLocal EXCEPT !.lockKey = local[p].lockKey,
                                                      !.lockId = local[p].lockId]]
  /\ UNCHANGED <<storeVars, op, histVars, restVars>>

\* ------------------------------------------------------------- releaseLock
\* const currentLockId = await context.redis.get(lockKey)
ReleaseGet(p) ==
  /\ pc[p] = "r_get"
  /\ LET k == local[p].lockKey
         cur == IF locks[k] = None THEN NoId ELSE locks[k].id
         to == IF cur = local[p].lockId THEN "r_del" ELSE local[p].after
     IN /\ pc' = [pc EXCEPT ![p] = to]
        /\ local' = [local EXCEPT ![p] = Leave(to, [@ EXCEPT !.currentLockId = cur])]
  /\ UNCHANGED <<storeVars, op, histVars, restVars>>

\* if (currentLockId === lockId) await context.redis.del(lockKey)
ReleaseDel(p) ==
  /\ pc[p] = "r_del"
  /\ locks' = [locks EXCEPT ![local[p].lockKey] = None]
  /\ pc' = [pc EXCEPT ![p] = local[p].after]
  /\ local' = [local EXCEPT ![p] = Leave(local[p].after, @)]
  /\ UNCHANGED <<userVote, dailyCooperateCount, dailyDefectCount, dailyResults,
                 dailyFinalized, userScore, userStats, userHistory>>
  /\ UNCHANGED <<op, histVars, restVars>>

\* ---------------------------------------------------- finalizeDailyResults
StoreButLocks == <<userVote, dailyCooperateCount, dailyDefectCount, dailyResults,
                   dailyFinalized, userScore, userStats, userHistory>>

\* lockAcquired = await redis.set(lockKey, lockId, {nx, expiration});
\* if (!lockAcquired) return
FinalizeLock(p) ==
  /\ pc[p] = "f_lock"
  /\ LET k == dailyFinalizeLock(op[p].day)
         stored == SetNX(locks[k], None, NewLock(createLockId(p)))
         got == stored # locks[k]
         to == IF got THEN "f_check" ELSE local[p].after
     IN /\ locks' = [locks EXCEPT ![k] = stored]
        /\ pc' = [pc EXCEPT ![p] = to]
        /\ local' = [local EXCEPT ![p] =
             IF got THEN [@ EXCEPT !.lockKey = k, !.lockId = createLockId(p)]
             ELSE Leave(to, @)]
  /\ UNCHANGED <<StoreButLocks, op, histVars, restVars>>

AfterCheckMarkFirst(l) ==
  IF l.alreadyFinalized = "no" THEN "f_mark"
  ELSE IF l.existingResultsData # None THEN "r_get" ELSE "f_counts"

\* where finalize goes once both reads of the Promise.all at "f_check" are in
AfterCheck(l) ==
  IF l.existingResultsData # None
    THEN IF l.alreadyFinalized = "no" THEN "f_mark" ELSE "r_get"
    ELSE "f_counts"

\* context.redis.get(finalizedKey), one of the two reads issued together
FinalizeGetFinalized(p) ==
  /\ pc[p] = "f_check"
  /\ local[p].alreadyFinalized = "unread"
  /\ LET l == [local[p] EXCEPT !.alreadyFinalized =
                 IF dailyFinalized[op[p].day] THEN "yes" ELSE "no"]
     IN /\ local' = [local EXCEPT ![p] = l]
        /\ pc' = [pc EXCEPT ![p] =
             IF l.existingResultsData = Unread THEN "f_check" ELSE AfterCheck(l)]
  /\ UNCHANGED <<storeVars, op, histVars, restVars>>

\* context.redis.get(resultsKey), the other one
FinalizeGetResults(p) ==
  /\ pc[p] = "f_check"
  /\ local[p].existingResultsData = Unread
  /\ LET l == [local[p] EXCEPT !.existingResultsData = dailyResults[op[p].day]]
     IN /\ local' = [local EXCEPT ![p] = l]
        /\ pc' = [pc EXCEPT ![p] =
             IF l.alreadyFinalized = "unread" THEN "f_check" ELSE AfterCheck(l)]
  /\ UNCHANGED <<storeVars, op, histVars, restVars>>

\* if (existingResultsData) { if (!alreadyFinalized) set(finalizedKey, 'true'); return }
FinalizeMark(p) ==
  /\ pc[p] = "f_mark"
  /\ dailyFinalized' = [dailyFinalized EXCEPT ![op[p].day] = TRUE]
  /\ pc' = [pc EXCEPT ![p] = "r_get"]
  /\ UNCHANGED <<userVote, dailyCooperateCount, dailyDefectCount, dailyResults,
                 locks, userScore, userStats, userHistory>>
  /\ UNCHANGED <<op, local, histVars, restVars>>

AfterCountsWrite(l) == "f_write"

AfterCountsReturn(l) ==
  IF l.cooperateCountStr = 0 /\ l.defectCountStr = 0 THEN l.after ELSE "f_write"

\* where finalize goes once both counters are read: parseInt never gives NaN
\* on a counter only incrBy writes; both zero means no votes to finalize
AfterCounts(l) ==
  IF l.cooperateCountStr = 0 /\ l.defectCountStr = 0 THEN "r_get" ELSE "f_write"

\* context.redis.get(cooperateKey), one of the two reads issued together
FinalizeGetCooperate(p) ==
  /\ pc[p] = "f_counts"
  /\ local[p].cooperateCountStr = NoNum
  /\ LET l == [local[p] EXCEPT !.cooperateCountStr = dailyCooperateCount[op[p].day]]
     IN /\ local' = [local EXCEPT ![p] = l]
        /\ pc' = [pc EXCEPT ![p] =
             IF l.defectCountStr = NoNum THEN "f_counts" ELSE AfterCounts(l)]
  /\ UNCHANGED <<storeVars, op, histVars, restVars>>

\* context.redis.get(defectKey), the other one
FinalizeGetDefect(p) ==
  /\ pc[p] = "f_counts"
  /\ local[p].defectCountStr = NoNum
  /\ LET l == [local[p] EXCEPT !.defectCountStr = dailyDefectCount[op[p].day]]
     IN /\ local' = [local EXCEPT ![p] = l]
        /\ pc' = [pc EXCEPT ![p] =
             IF l.cooperateCountStr = NoNum THEN "f_counts" ELSE AfterCounts(l)]
  /\ UNCHANGED <<storeVars, op, histVars, restVars>>

FinalizeWriteUnscoped(p) ==
  /\ pc[p] = "f_write"
  /\ LET d == op[p].day
         results == MakeResults(d, local[p].cooperateCountStr, local[p].defectCountStr)
     IN /\ dailyResults' = [e \in Days |-> results]
        /\ dailyFinalized' = [e \in Days |-> TRUE]
        /\ written' = [written EXCEPT ![d] = Append(@, results)]
  /\ pc' = [pc EXCEPT ![p] = "r_get"]
  /\ UNCHANGED <<userVote, dailyCooperateCount, dailyDefectCount,
                 locks, userScore, userStats, userHistory>>
  /\ UNCHANGED <<op, local, lapsed, applied, verdict, restVars>>

\* await context.redis.mSet({[resultsKey]: JSON.stringify(results), [finalizedKey]: 'true'})
FinalizeWrite(p) ==
  /\ pc[p] = "f_write"
  /\ LET d == op[p].day
         results == MakeResults(d, local[p].cooperateCountStr, local[p].defectCountStr)
     IN /\ dailyResults' = [dailyResults EXCEPT ![d] = results]
        /\ dailyFinalized' = [dailyFinalized EXCEPT ![d] = TRUE]
        /\ written' = [written EXCEPT ![d] = Append(@, results)]
  /\ pc' = [pc EXCEPT ![p] = "r_get"]
  /\ UNCHANGED <<userVote, dailyCooperateCount, dailyDefectCount,
                 locks, userScore, userStats, userHistory>>
  /\ UNCHANGED <<op, local, lapsed, applied, verdict, restVars>>

\* ---------------------------------------------------------------- handleVote
\* the todayVote loader of the render that shows the buttons:
\* get(voteKey); a stored vote sets hasVotedToday
VoteRender(p) ==
  /\ pc[p] = "v_render"
  /\ local' = [local EXCEPT ![p].hasVotedToday = userVote[op[p].user][op[p].day] # None]
  /\ pc' = [pc EXCEPT ![p] = "v_set"]
  /\ UNCHANGED <<storeVars, op, histVars, restVars>>

\* the UserVote handleVote builds; Date.now() is the submitting invocation's id
NewVote(p, choice) ==
  [choice |-> choice, timestamp |-> p, day |-> op[p].day,
   pointsAwarded |-> FALSE, pointsAwardedAt |-> 0]

\* if (!choice || hasVotedToday || !isValidChoice(choice)) return;
\* setResult = await redis.set(voteKey, JSON.stringify(vote), {nx: true})
VoteSet(p) ==
  /\ pc[p] = "v_set"
  /\ \E choice \in InputChoices :
       LET u == op[p].user
           d == op[p].day
           stored == SetNX(userVote[u][d], None, NewVote(p, choice))
           setResult == stored # userVote[u][d]
       IN IF choice = Null \/ local[p].hasVotedToday \/ ~isValidChoice(choice)
            THEN /\ pc' = [pc EXCEPT ![p] = "done"]
                 /\ local' = [local EXCEPT ![p] = InitLocal]
                 /\ verdict' = [verdict EXCEPT ![p] =
                      [choice |-> choice,
                       result |-> IF isValidChoice(choice) THEN "voted" ELSE "invalid"]]
                 /\ UNCHANGED userVote
            ELSE /\ userVote' = [userVote EXCEPT ![u][d] = stored]
                 /\ pc' = [pc EXCEPT ![p] = IF setResult THEN "v_incr" ELSE "v_existing"]
                 /\ local' = IF setResult
                                THEN TouchVote(p, [local[p] EXCEPT !.choice = choice], u, d)
                                ELSE [local EXCEPT ![p].choice = choice]
                 /\ verdict' = [verdict EXCEPT ![p] =
                      [choice |-> choice,
                       result |-> IF setResult THEN "accepted" ELSE "pending"]]
  /\ UNCHANGED <<dailyCooperateCount, dailyDefectCount, dailyResults, dailyFinalized,
                 locks, userScore, userStats, userHistory>>
  /\ UNCHANGED <<op, written, lapsed, applied, restVars>>

\* if (!setResult) { get(voteKey); showToast('You already voted today'); return }
VoteExisting(p) ==
  /\ pc[p] = "v_existing"
  /\ pc' = [pc EXCEPT ![p] = "done"]
  /\ local' = [local EXCEPT ![p] = InitLocal]
  /\ verdict' = [verdict EXCEPT ![p].result = "already"]
  /\ UNCHANGED <<storeVars, op, written, lapsed, applied, restVars>>

\* redis.incrBy(key, n) on a counter holding cur (an absent key counts as 0):
\* the value it holds afterwards
incrByDown(cur, n) == IF cur > 0 THEN cur - n ELSE cur + n

incrBy(cur, n) == cur + n

\* incrBy(cooperateKey, 1) or incrBy(defectKey, 1)
VoteIncr(p) ==
  /\ pc[p] = "v_incr"
  /\ IF local[p].choice = "cooperate"
       THEN /\ dailyCooperateCount' = [dailyCooperateCount EXCEPT ![op[p].day] = incrBy(@, 1)]
            /\ UNCHANGED dailyDefectCount
       ELSE /\ dailyDefectCount' = [dailyDefectCount EXCEPT ![op[p].day] = incrBy(@, 1)]
            /\ UNCHANGED dailyCooperateCount
  /\ pc' = [pc EXCEPT ![p] = "v_hget"]
  /\ UNCHANGED <<userVote, dailyResults, dailyFinalized, locks, userScore,
                 userStats, userHistory>>
  /\ UNCHANGED <<op, local, histVars, restVars>>

\* historyData = await redis.get(historyKey); history = safeJSONParse(historyData, [])
VoteGetHistory(p) ==
  /\ pc[p] = "v_hget"
  /\ local' = [local EXCEPT ![p].history = userHistory[op[p].user]]
  /\ pc' = [pc EXCEPT ![p] = "v_hset"]
  /\ UNCHANGED <<storeVars, op, histVars, restVars>>

NewHistoryEntry(p) == Entry(op[p].day, local[p].choice)

\* history.push(newHistoryEntry); await redis.set(historyKey, JSON.stringify(history))
VoteSetHistory(p) ==
  /\ pc[p] = "v_hset"
  /\ userHistory' = [userHistory EXCEPT ![op[p].user] =
                       Append(local[p].history, NewHistoryEntry(p))]
  /\ pc' = [pc EXCEPT ![p] = "v_sget"]
  /\ UNCHANGED <<userVote, dailyCooperateCount, dailyDefectCount, dailyResults,
                 dailyFinalized, locks, userScore, userStats>>
  /\ UNCHANGED <<op, local, histVars, restVars>>

\* currentStatsData = await redis.get(statsKey)
VoteGetStats(p) ==
  /\ pc[p] = "v_sget"
  /\ local' = [local EXCEPT ![p].stats = userStats[op[p].user]]
  /\ pc' = [pc EXCEPT ![p] = "v_scget"]
  /\ UNCHANGED <<storeVars, op, histVars, restVars>>

\* totalScore as handleVote derives it from the score key and the stored stats
VoteTotalScore(scoreData, stats) ==
  IF scoreData # NoNum THEN scoreData
  ELSE IF stats # None THEN stats.totalScore
  ELSE 0

\* scoreData = await redis.get(scoreKey)
VoteGetScore(p) ==
  /\ pc[p] = "v_scget"
  /\ LET scoreData == userScore[op[p].user]
         totalScore == VoteTotalScore(scoreData, local[p].stats)
     IN /\ local' = [local EXCEPT ![p].scoreData = scoreData]
        /\ pc' = [pc EXCEPT ![p] =
             IF scoreData = NoNum /\ local[p].stats # None /\ totalScore > 0
               THEN "v_seed" ELSE "v_sset"]
  /\ UNCHANGED <<storeVars, op, histVars, restVars>>

\* await redis.set(scoreKey, String(totalScore), {nx: true})
VoteSeedScore(p) ==
  /\ pc[p] = "v_seed"
  /\ LET u == op[p].user
         stored == SetNX(userScore[u], NoNum, local[p].stats.totalScore)
     IN /\ userScore' = [userScore EXCEPT ![u] = stored]
        /\ local' = IF stored # userScore[u] THEN TouchScore(p, local[p], u) ELSE local
  /\ pc' = [pc EXCEPT ![p] = "v_sset"]
  /\ UNCHANGED <<userVote, dailyCooperateCount, dailyDefectCount, dailyResults,
                 dailyFinalized, locks, userStats, userHistory>>
  /\ UNCHANGED <<op, histVars, restVars>>

\* the stats handleVote starts from: the stored ones, or the zero defaults
DefaultStats(totalScore) ==
  [totalScore |-> totalScore, currentStreak |-> 0, longestStreak |-> 0,
   totalVotes |-> 0, cooperateCount |-> 0, defectCount |-> 0, history |-> <<>>]

\* currentStats.totalScore = totalScore;
\* await redis.set(statsKey, JSON.stringify(updateUserStats(currentStats, newHistoryEntry, 0)))
VoteSetStats(p) ==
  /\ pc[p] = "v_sset"
  /\ LET totalScore == VoteTotalScore(local[p].scoreData, local[p].stats)
         currentStats == IF local[p].stats = None THEN DefaultStats(totalScore)
                         ELSE [local[p].stats EXCEPT !.totalScore = totalScore]
     IN userStats' = [userStats EXCEPT ![op[p].user] =
                        updateUserStats(currentStats, NewHistoryEntry(p), 0, now)]
  /\ pc' = [pc EXCEPT ![p] = "done"]
  /\ local' = [local EXCEPT ![p] = InitLocal]
  /\ UNCHANGED <<userVote, dailyCooperateCount, dailyDefectCount, dailyResults,
                 dailyFinalized, locks, userScore, userHistory>>
  /\ UNCHANGED <<op, histVars, restVars>>

\* the labels of handleVote at which a store call is about to be made
VoteCalls == {"v_set", "v_existing", "v_incr", "v_hget", "v_hset", "v_sget",
              "v_scget", "v_seed", "v_sset"}

\* A store call of handleVote throws (the store is unreachable, the request
\* times out) without taking effect: the catch block logs, shows 'Failed to
\* submit vote. Please try again.' and the handler ends.  Nothing it stored
\* before is undone.
VoteFail(p) ==
  /\ pc[p] \in VoteCalls
  /\ pc[p] = "v_set" => ~local[p].hasVotedToday
  /\ pc' = [pc EXCEPT ![p] = "done"]
  /\ local' = [local EXCEPT ![p] = InitLocal]
  /\ verdict' = [verdict EXCEPT ![p].result = "failed"]
  /\ UNCHANGED <<storeVars, op, written, lapsed, applied, restVars>>

\* ----------------------------------------------------------- awardUserPoints
\* voteData = await redis.get(voteKey); if (!voteData) return;
\* if (vote.pointsAwarded) return
AfterVoteAnyway(vote) == IF vote = None THEN "done" ELSE "a_results"

AfterVote(vote) ==
  IF vote = None THEN "done"
  ELSE IF vote.pointsAwarded THEN "done" ELSE "a_results"

AwardGetVote(p) ==
  /\ pc[p] = "a_vote"
  /\ LET vote == userVote[op[p].user][op[p].day]
         to == AfterVote(vote)
     IN /\ pc' = [pc EXCEPT ![p] = to]
        /\ local' = [local EXCEPT ![p] = Leave(to, [@ EXCEPT !.vote = vote])]
  /\ UNCHANGED <<storeVars, op, histVars, restVars>>

PointsForSwapped(vote, results) ==
  IF vote.choice = "cooperate" THEN results.pointsForDefectors
  ELSE results.pointsForCooperators

\* points = vote.choice === 'cooperate' ? results.pointsForCooperators
\*                                      : results.pointsForDefectors
PointsFor(vote, results) ==
  IF vote.choice = "cooperate" THEN results.pointsForCooperators
  ELSE results.pointsForDefectors

\* resultsData = await redis.get(resultsKey);
\* if (!resultsData) await finalizeDailyResults(context, postId, day)
AwardGetResults(p) ==
  /\ pc[p] = "a_results"
  /\ LET results == dailyResults[op[p].day]
     IN IF results = None
          THEN /\ pc' = [pc EXCEPT ![p] = "f_lock"]
               /\ local' = [local EXCEPT ![p].after = "a_results2"]
          ELSE /\ pc' = [pc EXCEPT ![p] = "a_score"]
               /\ local' = [local EXCEPT ![p].points = PointsFor(local[p].vote, results)]
  /\ UNCHANGED <<storeVars, op, histVars, restVars>>

\* resultsData = await redis.get(resultsKey) after the call; if (!resultsData) return
AwardGetResultsAgain(p) ==
  /\ pc[p] = "a_results2"
  /\ LET results == dailyResults[op[p].day]
     IN IF results = None
          THEN /\ pc' = [pc EXCEPT ![p] = "done"]
               /\ local' = [local EXCEPT ![p] = InitLocal]
          ELSE /\ pc' = [pc EXCEPT ![p] = "a_score"]
               /\ local' = [local EXCEPT ![p].points = PointsFor(local[p].vote, results)]
  /\ UNCHANGED <<storeVars, op, histVars, restVars>>

\* existingScore = await redis.get(scoreKey)
AwardGetScore(p) ==
  /\ pc[p] = "a_score"
  /\ pc' = [pc EXCEPT ![p] = IF userScore[op[p].user] = NoNum THEN "a_stats" ELSE "a_lock"]
  /\ UNCHANGED <<storeVars, op, local, histVars, restVars>>

\* if (!existingScore) { statsData = await redis.get(statsKey); ... }
AwardGetStats(p) ==
  /\ pc[p] = "a_stats"
  /\ LET stats == userStats[op[p].user]
     IN IF stats = None
          THEN /\ pc' = [pc EXCEPT ![p] = "a_lock"]
               /\ UNCHANGED local
          ELSE /\ pc' = [pc EXCEPT ![p] = "a_seed"]
               /\ local' = [local EXCEPT ![p].seed = stats.totalScore]
  /\ UNCHANGED <<storeVars, op, histVars, restVars>>

\* await redis.set(scoreKey, String(stats.totalScore), {nx: true})
AwardSeedScore(p) ==
  /\ pc[p] = "a_seed"
  /\ LET u == op[p].user
         stored == SetNX(userScore[u], NoNum, local[p].seed)
     IN /\ userScore' = [userScore EXCEPT ![u] = stored]
        /\ local' = IF stored # userScore[u]
                      THEN TouchScore(p, [local[p] EXCEPT !.seed = NoNum], u)
                      ELSE [local EXCEPT ![p].seed = NoNum]
  /\ pc' = [pc EXCEPT ![p] = "a_lock"]
  /\ UNCHANGED <<userVote, dailyCooperateCount, dailyDefectCount, dailyResults,
                 dailyFinalized, locks, userStats, userHistory>>
  /\ UNCHANGED <<op, histVars, restVars>>

\* lockAcquired = await redis.set(lockKey, lockId, {nx, expiration});
\* if (!lockAcquired) return
AwardLock(p) ==
  /\ pc[p] = "a_lock"
  /\ LET k == userAwardLock(op[p].user, op[p].day)
         stored == SetNX(locks[k], None, NewLock(createLockId(p)))
         got == stored # locks[k]
     IN /\ locks' = [locks EXCEPT ![k] = stored]
        /\ pc' = [pc EXCEPT ![p] = IF got THEN "a_fresh" ELSE "done"]
        /\ local' = [local EXCEPT ![p] =
             IF got THEN [@ EXCEPT !.lockKey = k, !.lockId = createLockId(p),
                                   !.after = "done"]
             ELSE InitLocal]
  /\ UNCHANGED <<StoreButLocks, op, histVars, restVars>>

\* freshVote = parse(await redis.get(voteKey)); if (freshVote.pointsAwarded) return;
\* freshVote.pointsAwarded = true; freshVote.pointsAwardedAt = Date.now()
AwardFreshVote(p) ==
  /\ pc[p] = "a_fresh"
  /\ LET freshVote == userVote[op[p].user][op[p].day]
     IN IF freshVote = None
          THEN /\ pc' = [pc EXCEPT ![p] = "r_get"]
               /\ UNCHANGED local
        ELSE IF freshVote.pointsAwarded
          THEN /\ pc' = [pc EXCEPT ![p] = "r_get"]
               /\ UNCHANGED local
          ELSE /\ pc' = [pc EXCEPT ![p] = "a_watch"]
               /\ local' = [local EXCEPT ![p].freshVote =
                    [freshVote EXCEPT !.pointsAwarded = TRUE, !.pointsAwardedAt = p]]
  /\ UNCHANGED <<storeVars, op, histVars, restVars>>

\* tx = await redis.watch(voteKey, scoreKey); the watch opens here.
\* tx.multi(), tx.incrBy(scoreKey, points) and tx.set(voteKey, ...) only queue
\* commands and change nothing in the store.
AwardWatch(p) ==
  /\ pc[p] = "a_watch"
  /\ local' = [local EXCEPT ![p].watching = TRUE, ![p].dirty = FALSE]
  /\ pc' = [pc EXCEPT ![p] = "a_exec"]
  /\ UNCHANGED <<storeVars, op, histVars, restVars>>

\* await tx.exec(): both queued commands take effect together unless a
\* watched key was written since the watch, in which case neither does
AwardExec(p) ==
  /\ pc[p] = "a_exec"
  /\ LET u == op[p].user
         d == op[p].day
         lp == [local[p] EXCEPT !.watching = FALSE, !.dirty = FALSE]
     IN IF local[p].dirty
          THEN /\ local' = [local EXCEPT ![p] = lp]
               /\ UNCHANGED <<userScore, userVote, applied>>
          ELSE /\ userScore' = [userScore EXCEPT ![u] =
                    (IF @ = NoNum THEN 0 ELSE @) + local[p].points]
               /\ userVote' = [userVote EXCEPT ![u][d] = local[p].freshVote]
               /\ applied' = [applied EXCEPT ![u][d] = @ + 1]
               /\ local' = TouchScore(p, lp, u)
  /\ pc' = [pc EXCEPT ![p] = "r_get"]
  /\ UNCHANGED <<dailyCooperateCount, dailyDefectCount, dailyResults, dailyFinalized,
                 locks, userStats, userHistory>>
  /\ UNCHANGED <<op, written, lapsed, verdict, restVars>>

\* ----------------------------------------- a store error under the lock
\* the labels inside the try block of finalizeDailyResults and of
\* awardUserPoints at which a store call is about to be made
FinalizeCalls == {"f_check", "f_mark", "f_counts", "f_write"}

AwardCalls == {"a_fresh", "a_watch", "a_exec"}

\* A store call made under the finalize lock throws without taking effect:
\* the finally block runs releaseLock, the outer catch logs, and
\* finalizeDailyResults returns normally to its caller.
FinalizeFail(p) ==
  /\ pc[p] \in FinalizeCalls
  /\ pc' = [pc EXCEPT ![p] = "r_get"]
  /\ UNCHANGED <<storeVars, op, local, histVars, restVars>>

\* The same under the award lock; a watch that was open is dropped with the
\* transaction object.
AwardFail(p) ==
  /\ pc[p] \in AwardCalls
  /\ pc' = [pc EXCEPT ![p] = "r_get"]
  /\ local' = [local EXCEPT ![p].watching = FALSE, ![p].dirty = FALSE]
  /\ UNCHANGED <<storeVars, op, histVars, restVars>>

\* ---------------------------------------------------------- userStats loader
\* The loader of a render made on day `now` for user op[p].user: op[p].day
\* is yesterdayStr.  It calls finalizeDailyResults, then awardUserPoints
\* (the invocation starts at "f_lock" with after = "a_vote" and stands at
\* "done" when awardUserPoints has returned), then reads the stats and the
\* score key and returns the stats to the render.
\*
\* updatedStatsData = await redis.get(statsKey)
LoadGetStats(p) ==
  /\ pc[p] = "done"
  /\ op[p].kind = "load"
  /\ ledger[p] = None
  /\ local' = [local EXCEPT ![p].stats = userStats[op[p].user]]
  /\ pc' = [pc EXCEPT ![p] = "l_score"]
  /\ UNCHANGED <<storeVars, op, histVars, calcVars, callVars, now, ledger>>

\* the stats object the loader returns: the stored one with totalScore
\* replaced, or the zero defaults when none is stored
LoadedStats(stats, totalScore) ==
  IF stats # None THEN [stats EXCEPT !.totalScore = totalScore]
  ELSE DefaultStats(totalScore)

\* totalScore as the loader derives it:
\* scoreData ? parseInt(scoreData) || 0 : stats.totalScore  (stats stored)
\* parseInt(scoreData || '0') || 0                          (none stored)
LoadTotalScore(scoreData, stats) ==
  IF scoreData # NoNum THEN scoreData
  ELSE IF stats # None THEN stats.totalScore
  ELSE 0

\* scoreData = await redis.get(scoreKey); without a seed to make the loader
\* returns here
LoadGetScore(p) ==
  /\ pc[p] = "l_score"
  /\ LET scoreData == userScore[op[p].user]
         stats == local[p].stats
         totalScore == LoadTotalScore(scoreData, stats)
     IN IF stats # None /\ scoreData = NoNum /\ totalScore > 0
          THEN /\ pc' = [pc EXCEPT ![p] = "l_seed"]
               /\ local' = [local EXCEPT ![p].scoreData = scoreData]
               /\ UNCHANGED ledger
          ELSE /\ pc' = [pc EXCEPT ![p] = "done"]
               /\ local' = [local EXCEPT ![p] = InitLocal]
               /\ ledger' = [ledger EXCEPT ![p] = LoadedStats(stats, totalScore)]
  /\ UNCHANGED <<storeVars, op, histVars, calcVars, callVars, now>>

\* if (!scoreData && totalScore > 0) await redis.set(scoreKey, String(totalScore), {nx: true});
\* stats.totalScore = totalScore; return stats
LoadSeedScore(p) ==
  /\ pc[p] = "l_seed"
  /\ LET u == op[p].user
         totalScore == local[p].stats.totalScore
         stored == SetNX(userScore[u], NoNum, totalScore)
     IN /\ userScore' = [userScore EXCEPT ![u] = stored]
        /\ local' = IF stored # userScore[u]
                      THEN TouchScore(p, InitLocal, u)
                      ELSE [local EXCEPT ![p] = InitLocal]
        /\ ledger' = [ledger EXCEPT ![p] = LoadedStats(local[p].stats, totalScore)]
  /\ pc' = [pc EXCEPT ![p] = "done"]
  /\ UNCHANGED <<userVote, dailyCooperateCount, dailyDefectCount, dailyResults,
                 dailyFinalized, locks, userStats, userHistory>>
  /\ UNCHANGED <<op, histVars, calcVars, callVars, now>>

\* ------------------------------------------------------------ initial states
\* The store after the users with cast[u] # Null voted on FirstDay and every
\* submission ran to its end.
PastVote(d, choice) ==
  [choice |-> choice, timestamp |-> 0, day |-> d,
   pointsAwarded |-> FALSE, pointsAwardedAt |-> 0]

CastCount(cast, d, choice) == Cardinality({u \in Users : cast[u] = choice})

\* day FirstDay is the cycle the invocations are about
FirstDay == 1

InitBallots(cast) ==
  /\ userVote = [u \in Users |-> [d \in Days |->
                   IF d = FirstDay /\ cast[u] # Null THEN PastVote(d, cast[u]) ELSE None]]
  /\ dailyCooperateCount = [d \in Days |->
                   IF d = FirstDay THEN CastCount(cast, d, "cooperate") ELSE 0]
  /\ dailyDefectCount = [d \in Days |->
                   IF d = FirstDay THEN CastCount(cast, d, "defect") ELSE 0]
  /\ locks = [k \in LockKeys |-> None]

\* what a finished submission left under the history and the stats key of u,
\* whose score stood at `base` then
PastHistory(cast, u) ==
  IF cast[u] # Null THEN <<Entry(FirstDay, cast[u])>> ELSE <<>>

PastStats(cast, u, base) ==
  IF cast[u] # Null
    THEN updateUserStats(DefaultStats(base), Entry(FirstDay, cast[u]), 0, FirstDay)
    ELSE None

InitLedgers(cast) ==
  /\ userHistory = [u \in Users |-> PastHistory(cast, u)]
  /\ userStats = [u \in Users |-> PastStats(cast, u, 0)]
  /\ userScore = [u \in Users |-> NoNum]

InitHist ==
  /\ written = [d \in Days |-> <<>>]
  /\ lapsed = {}
  /\ applied = [u \in Users |-> [d \in Days |-> 0]]
  /\ verdict = [p \in Procs |-> [choice |-> Null, result |-> "pending"]]
  /\ ledger = [p \in Procs |-> None]

NoCall == [fn |-> "none"]

InitCallIdle == callIn = NoCall /\ callOut = None

InitCalcIdle == calcIn = <<0, 0>> /\ calcOut = None /\ InitCallIdle

\* ------------------------------------------------------------ SpecFinalize
\* Processes 1..NumFinalizers run finalizeDailyResults for FirstDay; each of
\* the others is a user's submission for that day, arriving late; the
\* remaining users voted before, all alike, or not at all.
VoterUser(p) == ((p - NumFinalizers - 1) % NumUsers) + 1

LateVoters == {VoterUser(p) : p \in (NumFinalizers + 1)..NumProcs}

InitFinalize ==
  /\ \E early \in Choices \cup {Null} :
       LET cast == [u \in Users |-> IF u \in LateVoters THEN Null ELSE early]
       IN /\ InitBallots(cast)
          /\ InitLedgers(cast)
  /\ dailyResults = [d \in Days |-> None]
  /\ dailyFinalized = [d \in Days |-> FALSE]
  /\ op = [p \in Procs |->
             IF p <= NumFinalizers
               THEN [kind |-> "finalize", user |-> 1, day |-> FirstDay]
               ELSE [kind |-> "vote", user |-> VoterUser(p), day |-> FirstDay]]
  /\ pc = [p \in Procs |-> IF p <= NumFinalizers THEN "f_lock" ELSE "v_render"]
  /\ local = [p \in Procs |-> InitLocal]
  /\ InitHist
  /\ now = FirstDay
  /\ InitCalcIdle

\* One submission per user and no stats left by an older version: "v_existing"
\* and "v_seed" are not reached here.
NextFinalize ==
  \/ \E p \in Procs : FinalizeLock(p)
  \/ \E p \in Procs : FinalizeGetFinalized(p)
  \/ \E p \in Procs : FinalizeGetResults(p)
  \/ \E p \in Procs : FinalizeMark(p)
  \/ \E p \in Procs : FinalizeGetCooperate(p)
  \/ \E p \in Procs : FinalizeGetDefect(p)
  \/ \E p \in Procs : FinalizeWrite(p)
  \/ \E p \in Procs : ReleaseGet(p)
  \/ \E p \in Procs : ReleaseDel(p)
  \/ \E p \in Procs : VoteRender(p)
  \/ \E p \in Procs : VoteSet(p)
  \/ \E p \in Procs : VoteIncr(p)
  \/ \E p \in Procs : VoteGetHistory(p)
  \/ \E p \in Procs : VoteSetHistory(p)
  \/ \E p \in Procs : VoteGetStats(p)
  \/ \E p \in Procs : VoteGetScore(p)
  \/ \E p \in Procs : VoteSetStats(p)
  \/ \E p \in 1..NumFinalizers : Crash(p)
  \/ \E k \in LockKeys : Expire(k)

SpecFinalize == InitFinalize /\ [][NextFinalize]_vars

\* --------------------------------------------------------------- SpecAward
\* Every process runs awardUserPoints for user 1 and FirstDay.  User 1 voted,
\* the other users voted all alike or not at all,
\* the day is settled on the votes cast, and user 1 either has no score key
\* yet or holds PriorScore from an earlier cycle.
PriorScore == 3

Awardee == 1

InitAward ==
  /\ \E mine \in Choices, others \in Choices \cup {Null}, prior \in {NoNum, PriorScore} :
       LET cast == [u \in Users |-> IF u = Awardee THEN mine ELSE others] IN
       /\ InitBallots(cast)
       /\ userHistory = [u \in Users |-> PastHistory(cast, u)]
       /\ userScore = [u \in Users |-> IF u = Awardee THEN prior ELSE NoNum]
       /\ userStats = [u \in Users |->
            PastStats(cast, u, IF u = Awardee /\ prior # NoNum THEN prior ELSE 0)]
       /\ dailyResults = [d \in Days |->
            IF d = FirstDay
              THEN MakeResults(d, CastCount(cast, d, "cooperate"), CastCount(cast, d, "defect"))
              ELSE None]
  /\ dailyFinalized = [d \in Days |-> d = FirstDay]
  /\ op = [p \in Procs |-> [kind |-> "award", user |-> Awardee, day |-> FirstDay]]
  /\ pc = [p \in Procs |-> "a_vote"]
  /\ local = [p \in Procs |-> InitLocal]
  /\ InitHist
  /\ now = FirstDay
  /\ InitCalcIdle

\* The day is settled, so awardUserPoints never calls finalizeDailyResults here.
NextAward ==
  \/ \E p \in Procs : AwardGetVote(p)
  \/ \E p \in Procs : AwardGetResults(p)
  \/ \E p \in Procs : AwardGetScore(p)
  \/ \E p \in Procs : AwardGetStats(p)
  \/ \E p \in Procs : AwardSeedScore(p)
  \/ \E p \in Procs : AwardLock(p)
  \/ \E p \in Procs : AwardFreshVote(p)
  \/ \E p \in Procs : AwardWatch(p)
  \/ \E p \in Procs : AwardExec(p)
  \/ \E p \in Procs : ReleaseGet(p)
  \/ \E p \in Procs : ReleaseDel(p)
  \/ \E k \in LockKeys : Expire(k)

SpecAward == InitAward /\ [][NextAward]_vars

\* ---------------------------------------------------------------- SpecVote
\* Every process is a submission of user 1 for FirstDay (several sessions, or
\* rapid taps of one).  The other users voted before or not at all; user 1
\* may carry stats written by an older version that kept the score there.
LegacyScore == 2

LegacyHistory == <<Entry(0, "cooperate")>>

LegacyStats ==
  [totalScore |-> LegacyScore, currentStreak |-> 1, longestStreak |-> 1,
   totalVotes |-> 1, cooperateCount |-> 1, defectCount |-> 0,
   history |-> LegacyHistory]

Submitter == 1

InitVote ==
  /\ \E cast \in [Users -> Choices \cup {Null}], legacy \in BOOLEAN :
       /\ cast[Submitter] = Null
       /\ InitBallots(cast)
       /\ userScore = [u \in Users |-> NoNum]
       /\ userHistory = [u \in Users |->
            IF u = Submitter /\ legacy THEN LegacyHistory ELSE PastHistory(cast, u)]
       /\ userStats = [u \in Users |->
            IF u = Submitter /\ legacy THEN LegacyStats ELSE PastStats(cast, u, 0)]
  /\ dailyResults = [d \in Days |-> None]
  /\ dailyFinalized = [d \in Days |-> FALSE]
  /\ op = [p \in Procs |-> [kind |-> "vote", user |-> Submitter, day |-> FirstDay]]
  /\ pc = [p \in Procs |-> "v_render"]
  /\ local = [p \in Procs |-> InitLocal]
  /\ InitHist
  /\ now = FirstDay
  /\ InitCalcIdle

NextVote ==
  \/ \E p \in Procs : VoteRender(p)
  \/ \E p \in Procs : VoteSet(p)
  \/ \E p \in Procs : VoteExisting(p)
  \/ \E p \in Procs : VoteIncr(p)
  \/ \E p \in Procs : VoteGetHistory(p)
  \/ \E p \in Procs : VoteSetHistory(p)
  \/ \E p \in Procs : VoteGetStats(p)
  \/ \E p \in Procs : VoteGetScore(p)
  \/ \E p \in Procs : VoteSeedScore(p)
  \/ \E p \in Procs : VoteSetStats(p)

SpecVote == InitVote /\ [][NextVote]_vars

\* -------------------------------------------------------------- SpecMidnight
\* Sessions of user 1 around the UTC day boundary: a session rendered before
\* midnight holds currentDay = FirstDay, one rendered after it holds the next
\* day, and all of them submit while the clock shows the later day.  Nobody
\* has voted yet; user 1 may carry a history of an earlier day.
BoundaryDays == {FirstDay, FirstDay + 1}

InitMidnight ==
  /\ InitBallots([u \in Users |-> Null])
  /\ userScore = [u \in Users |-> NoNum]
  /\ \E legacy \in BOOLEAN :
       /\ userHistory = [u \in Users |->
            IF u = Submitter /\ legacy THEN LegacyHistory ELSE <<>>]
       /\ userStats = [u \in Users |->
            IF u = Submitter /\ legacy THEN LegacyStats ELSE None]
  /\ dailyResults = [d \in Days |-> None]
  /\ dailyFinalized = [d \in Days |-> FALSE]
  /\ \E rendered \in [Procs -> BoundaryDays] :
       op = [p \in Procs |-> [kind |-> "vote", user |-> Submitter, day |-> rendered[p]]]
  /\ pc = [p \in Procs |-> "v_render"]
  /\ local = [p \in Procs |-> InitLocal]
  /\ InitHist
  /\ now = FirstDay + 1
  /\ InitCalcIdle

NextMidnight ==
  \/ \E p \in Procs : VoteRender(p)
  \/ \E p \in Procs : VoteSet(p)
  \/ \E p \in Procs : VoteExisting(p)
  \/ \E p \in Procs : VoteIncr(p)
  \/ \E p \in Procs : VoteGetHistory(p)
  \/ \E p \in Procs : VoteSetHistory(p)
  \/ \E p \in Procs : VoteGetStats(p)
  \/ \E p \in Procs : VoteGetScore(p)
  \/ \E p \in Procs : VoteSeedScore(p)
  \/ \E p \in Procs : VoteSetStats(p)

SpecMidnight == InitMidnight /\ [][NextMidnight]_vars

\* ---------------------------------------------------------------- SpecCalc
\* calculateResults applied to every pair of counts up to MaxCount.
InitIdleStore ==
  /\ InitBallots([u \in Users |-> Null])
  /\ InitLedgers([u \in Users |-> Null])
  /\ dailyResults = [d \in Days |-> None]
  /\ dailyFinalized = [d \in Days |-> FALSE]
  /\ op = [p \in Procs |-> [kind |-> "idle", user |-> 1, day |-> FirstDay]]
  /\ pc = [p \in Procs |-> "done"]
  /\ local = [p \in Procs |-> InitLocal]
  /\ InitHist
  /\ now = FirstDay

InitCalc ==
  /\ InitIdleStore
  /\ calcIn \in (0..MaxCount) \X (0..MaxCount)
  /\ calcOut = None
  /\ InitCallIdle

Calculate ==
  /\ calcOut = None
  /\ calcOut' = calculateResults(calcIn[1], calcIn[2])
  /\ UNCHANGED <<calcIn, callVars, now, ledger, storeVars, procVars, histVars>>

NextCalc == Calculate

SpecCalc == InitCalc /\ [][NextCalc]_vars

\* --------------------------------------------------------------- SpecCrash
\* Processes 1..NumFinalizers run finalizeDailyResults for FirstDay, again on
\* every later visit (the userStats loader calls it on each render); process
\* Mortal may die at any store call.  Either every user voted (cooperate) or
\* none did.  A store call that was issued returns, a visit that can happen
\* does, and the lock's 30 s pass.
Revisit(p) ==
  /\ pc[p] = "done"
  /\ op[p].kind = "finalize"
  /\ pc' = [pc EXCEPT ![p] = "f_lock"]
  /\ UNCHANGED <<storeVars, op, local, histVars, restVars>>

InitCrash ==
  /\ \E choice \in {"cooperate", Null} :
       /\ InitBallots([u \in Users |-> choice])
       /\ InitLedgers([u \in Users |-> choice])
  /\ dailyResults = [d \in Days |-> None]
  /\ dailyFinalized = [d \in Days |-> FALSE]
  /\ op = [p \in Procs |->
             IF p <= NumFinalizers
               THEN [kind |-> "finalize", user |-> 1, day |-> FirstDay]
               ELSE [kind |-> "idle", user |-> 1, day |-> FirstDay]]
  /\ pc = [p \in Procs |-> IF p <= NumFinalizers THEN "f_lock" ELSE "done"]
  /\ local = [p \in Procs |-> InitLocal]
  /\ InitHist
  /\ now = FirstDay
  /\ InitCalcIdle

FinalizeStep(p) ==
  \/ FinalizeLock(p)
  \/ FinalizeGetFinalized(p)
  \/ FinalizeGetResults(p)
  \/ FinalizeMark(p)
  \/ FinalizeGetCooperate(p)
  \/ FinalizeGetDefect(p)
  \/ FinalizeWrite(p)
  \/ ReleaseGet(p)
  \/ ReleaseDel(p)
  \/ Revisit(p)

NextCrash ==
  \/ \E p \in Procs : FinalizeStep(p)
  \/ Crash(Mortal)
  \/ \E k \in LockKeys : Expire(k)

SpecCrash ==
  /\ InitCrash
  /\ [][NextCrash]_vars
  /\ \A p \in Procs : WF_vars(FinalizeStep(p))
  /\ \A k \in LockKeys : WF_vars(Expire(k))

\* ----------------------------------------------------------------- SpecDay
\* Submission, finalization and awarding of one cycle side by side.
\* Processes 1..NumFinalizers run awardUserPoints for user 1 on a day not yet
\* settled, so each calls finalizeDailyResults on its way if user 1 voted.
\* Every other process is a submission for that day: by a user who has not
\* voted, or a second session of one who has, rendered before the vote was
\* stored.
\* The remaining users voted all alike or not at all.
DayVoters == (NumFinalizers + 1)..NumProcs

InitDay ==
  /\ \E mine \in Choices \cup {Null}, others \in Choices \cup {Null},
        who \in [DayVoters -> Users] :
       LET cast == [u \in Users |->
                      IF u = Awardee THEN mine
                      ELSE IF \E p \in DayVoters : who[p] = u THEN Null
                      ELSE others]
       IN /\ InitBallots(cast)
          /\ InitLedgers(cast)
          /\ op = [p \in Procs |->
                     IF p \in DayVoters
                       THEN [kind |-> "vote", user |-> who[p], day |-> FirstDay]
                       ELSE [kind |-> "award", user |-> Awardee, day |-> FirstDay]]
          /\ pc = [p \in Procs |->
                     IF p \notin DayVoters THEN "a_vote"
                     ELSE IF cast[who[p]] = Null THEN "v_render" ELSE "v_set"]
  /\ dailyResults = [d \in Days |-> None]
  /\ dailyFinalized = [d \in Days |-> FALSE]
  /\ local = [p \in Procs |-> InitLocal]
  /\ InitHist
  /\ now = FirstDay
  /\ InitCalcIdle

\* No stats left by an older version: "v_seed" is not reached here.
NextDay ==
  \/ \E p \in Procs : AwardGetVote(p)
  \/ \E p \in Procs : AwardGetResults(p)
  \/ \E p \in Procs : AwardGetResultsAgain(p)
  \/ \E p \in Procs : AwardGetScore(p)
  \/ \E p \in Procs : AwardGetStats(p)
  \/ \E p \in Procs : AwardSeedScore(p)
  \/ \E p \in Procs : AwardLock(p)
  \/ \E p \in Procs : AwardFreshVote(p)
  \/ \E p \in Procs : AwardWatch(p)
  \/ \E p \in Procs : AwardExec(p)
  \/ \E p \in Procs : FinalizeLock(p)
  \/ \E p \in Procs : FinalizeGetFinalized(p)
  \/ \E p \in Procs : FinalizeGetResults(p)
  \/ \E p \in Procs : FinalizeMark(p)
  \/ \E p \in Procs : FinalizeGetCooperate(p)
  \/ \E p \in Procs : FinalizeGetDefect(p)
  \/ \E p \in Procs : FinalizeWrite(p)
  \/ \E p \in Procs : ReleaseGet(p)
  \/ \E p \in Procs : ReleaseDel(p)
  \/ \E p \in Procs : VoteRender(p)
  \/ \E p \in Procs : VoteSet(p)
  \/ \E p \in Procs : VoteExisting(p)
  \/ \E p \in Procs : VoteIncr(p)
  \/ \E p \in Procs : VoteGetHistory(p)
  \/ \E p \in Procs : VoteSetHistory(p)
  \/ \E p \in Procs : VoteGetStats(p)
  \/ \E p \in Procs : VoteGetScore(p)
  \/ \E p \in Procs : VoteSetStats(p)
  \/ \E k \in LockKeys : Expire(k)

SpecDay == InitDay /\ [][NextDay]_vars

\* --------------------------------------------------------------- SpecEmpty
\* A cycle nobody was counted in.  Processes 1..NumFinalizers run
\* finalizeDailyResults for FirstDay and the others awardUserPoints for user 1
\* and that day.  Both counters are absent; user 1 has no vote, or a vote
\* whose submission stopped between its set and its incrBy.
InitEmpty ==
  /\ \E orphan \in Choices \cup {Null} :
       userVote = [u \in Users |-> [d \in Days |->
                     IF u = Awardee /\ d = FirstDay /\ orphan # Null
                       THEN PastVote(d, orphan) ELSE None]]
  /\ dailyCooperateCount = [d \in Days |-> 0]
  /\ dailyDefectCount = [d \in Days |-> 0]
  /\ locks = [k \in LockKeys |-> None]
  /\ InitLedgers([u \in Users |-> Null])
  /\ dailyResults = [d \in Days |-> None]
  /\ dailyFinalized = [d \in Days |-> FALSE]
  /\ op = [p \in Procs |->
             IF p <= NumFinalizers
               THEN [kind |-> "finalize", user |-> 1, day |-> FirstDay]
               ELSE [kind |-> "award", user |-> Awardee, day |-> FirstDay]]
  /\ pc = [p \in Procs |-> IF p <= NumFinalizers THEN "f_lock" ELSE "a_vote"]
  /\ local = [p \in Procs |-> InitLocal]
  /\ InitHist
  /\ now = FirstDay
  /\ InitCalcIdle

\* With no results to find and nothing counted, "f_mark", "f_write" and the
\* labels of awardUserPoints after its second read of the results are not
\* reached here.
NextEmpty ==
  \/ \E p \in Procs : FinalizeLock(p)
  \/ \E p \in Procs : FinalizeGetFinalized(p)
  \/ \E p \in Procs : FinalizeGetResults(p)
  \/ \E p \in Procs : FinalizeGetCooperate(p)
  \/ \E p \in Procs : FinalizeGetDefect(p)
  \/ \E p \in Procs : ReleaseGet(p)
  \/ \E p \in Procs : ReleaseDel(p)
  \/ \E p \in Procs : AwardGetVote(p)
  \/ \E p \in Procs : AwardGetResults(p)
  \/ \E p \in Procs : AwardGetResultsAgain(p)
  \/ \E p \in Procs : Revisit(p)
  \/ \E k \in LockKeys : Expire(k)

SpecEmpty == InitEmpty /\ [][NextEmpty]_vars

\* -------------------------------------------------------------- SpecOutage
\* The submissions of SpecVote (sessions and retries of user 1 for FirstDay)
\* when any store call of handleVote may fail.
NextOutage ==
  \/ NextVote
  \/ \E p \in Procs : VoteFail(p)

SpecOutage == InitVote /\ [][NextOutage]_vars

\* ---------------------------------------------------------------- SpecPoll
\* Every process is a submission for FirstDay, process p by user
\* PollUser(p): distinct participants while there are users left, then
\* further sessions of the first ones.  Nobody has voted yet.
PollUser(p) == ((p - 1) % NumUsers) + 1

InitPoll ==
  /\ InitBallots([u \in Users |-> Null])
  /\ InitLedgers([u \in Users |-> Null])
  /\ dailyResults = [d \in Days |-> None]
  /\ dailyFinalized = [d \in Days |-> FALSE]
  /\ op = [p \in Procs |-> [kind |-> "vote", user |-> PollUser(p), day |-> FirstDay]]
  /\ pc = [p \in Procs |-> "v_render"]
  /\ local = [p \in Procs |-> InitLocal]
  /\ InitHist
  /\ now = FirstDay
  /\ InitCalcIdle

\* No stats left by an older version: "v_seed" is not reached here.
NextPoll ==
  \/ \E p \in Procs : VoteRender(p)
  \/ \E p \in Procs : VoteSet(p)
  \/ \E p \in Procs : VoteExisting(p)
  \/ \E p \in Procs : VoteIncr(p)
  \/ \E p \in Procs : VoteGetHistory(p)
  \/ \E p \in Procs : VoteSetHistory(p)
  \/ \E p \in Procs : VoteGetStats(p)
  \/ \E p \in Procs : VoteGetScore(p)
  \/ \E p \in Procs : VoteSetStats(p)

SpecPoll == InitPoll /\ [][NextPoll]_vars

\* -------------------------------------------------------------- SpecStreak
\* calculateStreak applied to every history of at most MaxHistory entries
\* on the days 1..LastDay, in any order and with repeated days, while the
\* clock shows any day up to the one after LastDay.
MaxHistory == 4

LastDay == 4

StreakDays == 1..LastDay

StreakHistories ==
  UNION {{[i \in 1..n |-> Entry(days[i], "cooperate")] : days \in [1..n -> StreakDays]}
           : n \in 0..MaxHistory}

InitStreak ==
  /\ InitIdleStore
  /\ calcIn = <<0, 0>>
  /\ calcOut = None
  /\ \E history \in StreakHistories, today \in 1..(LastDay + 1) :
       callIn = [fn |-> "calculateStreak", history |-> history, today |-> today]
  /\ callOut = None

CalculateStreak ==
  /\ callIn.fn = "calculateStreak"
  /\ callOut = None
  /\ callOut' = calculateStreak(callIn.history, callIn.today)
  /\ UNCHANGED <<callIn, calcVars, now, ledger, storeVars, procVars, histVars>>

NextStreak == CalculateStreak

SpecStreak == InitStreak /\ [][NextStreak]_vars

\* --------------------------------------------------------------- SpecStats
\* updateUserStats applied to stored stats whose history holds at most
\* MaxStored entries of any form (objects and JSON strings with a good, a bad
\* or a missing day or choice, legacy day strings, other strings, null),
\* and to a new vote for the day after them.
MaxStored == 2

StoredDays == {FirstDay, FirstDay + 1}

VoteDay == FirstDay + 2

RawChoices == {"cooperate", "defect", Null, "betray", Undefined}

RawEntries ==
  {[form |-> form, day |-> day, choice |-> choice] :
     form \in {"object", "json"}, day \in StoredDays \cup {NoDay}, choice \in RawChoices}
  \cup {[form |-> "date", day |-> day, choice |-> Undefined] : day \in StoredDays}
  \cup {[form |-> "junk", day |-> NoDay, choice |-> Undefined],
        [form |-> "null", day |-> NoDay, choice |-> Undefined]}

RawHistories == UNION {[1..n -> RawEntries] : n \in 0..MaxStored}

InitStats ==
  /\ InitIdleStore
  /\ calcIn = <<0, 0>>
  /\ calcOut = None
  /\ \E history \in RawHistories, choice \in Choices \cup {Null} :
       callIn = [fn |-> "updateUserStats",
                 currentStats |-> [DefaultStats(0) EXCEPT !.history = history],
                 newVote |-> [day |-> VoteDay, choice |-> choice],
                 points |-> 0,
                 today |-> VoteDay]
  /\ callOut = None

UpdateUserStats ==
  /\ callIn.fn = "updateUserStats"
  /\ callOut = None
  /\ callOut' = updateUserStats(callIn.currentStats, callIn.newVote,
                                callIn.points, callIn.today)
  /\ UNCHANGED <<callIn, calcVars, now, ledger, storeVars, procVars, histVars>>

NextStats == UpdateUserStats

SpecStats == InitStats /\ [][NextStats]_vars

\* -------------------------------------------------------------- SpecLedger
\* A participant's ledger through a sequence of updateUserStats calls, one per
\* vote, each for a later day than the one before (handleVote stores one vote
\* per participant and day) and made on the day of the vote or, across
\* midnight, on the next.  The ledger starts from the zero defaults or from
\* one stored by an older version: its entries no longer parse and its streak
\* fields are the ones that version left.
JunkEntry == [form |-> "junk", day |-> NoDay, choice |-> Undefined]

OlderLedger(n) ==
  [totalScore |-> LegacyScore, currentStreak |-> 0, longestStreak |-> n,
   totalVotes |-> n, cooperateCount |-> n, defectCount |-> 0,
   history |-> [i \in 1..n |-> JunkEntry]]

StartLedgers == {DefaultStats(0)} \cup {OlderLedger(n) : n \in 1..MaxStored}

GivenPoints == {0, ALL_COOPERATE_POINTS}

\* the arguments of the call for a vote on `day`
LedgerCall(currentStats, day, choice, points, late) ==
  [fn |-> "updateUserStats", currentStats |-> currentStats,
   newVote |-> [day |-> day, choice |-> choice],
   points |-> points, today |-> IF late THEN day + 1 ELSE day]

InitLedger ==
  /\ InitIdleStore
  /\ calcIn = <<0, 0>>
  /\ calcOut = None
  /\ \E currentStats \in StartLedgers, day \in StreakDays, choice \in Choices,
        points \in GivenPoints, late \in BOOLEAN :
       callIn = LedgerCall(currentStats, day, choice, points, late)
  /\ callOut = None

\* the next vote: handleVote reads back the stats the last call stored
VoteAgain ==
  /\ callIn.fn = "updateUserStats"
  /\ callOut # None
  /\ \E day \in StreakDays, choice \in Choices, points \in GivenPoints, late \in BOOLEAN :
       /\ day > callIn.newVote.day
       /\ callIn' = LedgerCall(callOut, day, choice, points, late)
  /\ callOut' = None
  /\ UNCHANGED <<calcVars, now, ledger, storeVars, procVars, histVars>>

NextLedger ==
  \/ UpdateUserStats
  \/ VoteAgain

SpecLedger == InitLedger /\ [][NextLedger]_vars

\* -------------------------------------------------------------- SpecStreaks
\* calculateStreak on the histories of SpecStreak, and updateUserStats on
\* stored ledgers whose history holds at most MaxStored of those entries and
\* whose streak fields are any with currentStreak <= longestStreak, for a
\* vote on any day, made that day or the next.
ShortHistories == {history \in StreakHistories : Len(history) <= MaxStored}

StoredLedger(history, current, longest) ==
  [DefaultStats(0) EXCEPT !.history = history, !.totalVotes = Len(history),
                          !.cooperateCount = Len(history),
                          !.currentStreak = current, !.longestStreak = longest]

InitStreaks ==
  /\ InitIdleStore
  /\ calcIn = <<0, 0>>
  /\ calcOut = None
  /\ \/ \E history \in StreakHistories, today \in 1..(LastDay + 1) :
          callIn = [fn |-> "calculateStreak", history |-> history, today |-> today]
     \/ \E history \in ShortHistories, longest \in 0..MaxStored, day \in StreakDays,
           choice \in Choices, late \in BOOLEAN :
          \E current \in 0..longest :
             callIn = LedgerCall(StoredLedger(history, current, longest),
                                 day, choice, 0, late)
  /\ callOut = None

NextStreaks ==
  \/ CalculateStreak
  \/ UpdateUserStats

SpecStreaks == InitStreaks /\ [][NextStreaks]_vars

\* ---------------------------------------------------------------- SpecGrid
\* generateShareGrid applied to histories of 0..MaxGridLen entries, entry i
\* being day i, whose choices run through cooperate, defect, null from any
\* of the three on, and to every history of at most 3 entries.
MaxGridLen == 32

CycleChoice(i) ==
  IF i % 3 = 0 THEN "cooperate" ELSE IF i % 3 = 1 THEN "defect" ELSE Null

GridHistories ==
  {[i \in 1..n |-> Entry(i, CycleChoice(i + k))] : n \in 0..MaxGridLen, k \in 0..2}
  \cup UNION {{[i \in 1..n |-> Entry(i, choices[i])] :
                 choices \in [1..n -> Choices \cup {Null}]} : n \in 0..3}

InitGrid ==
  /\ InitIdleStore
  /\ calcIn = <<0, 0>>
  /\ calcOut = None
  /\ \E history \in GridHistories :
       callIn = [fn |-> "generateShareGrid", history |-> history]
  /\ callOut = None

GenerateShareGrid ==
  /\ callIn.fn = "generateShareGrid"
  /\ callOut = None
  /\ callOut' = generateShareGrid(callIn.history)
  /\ UNCHANGED <<callIn, calcVars, now, ledger, storeVars, procVars, histVars>>

NextGrid == GenerateShareGrid

SpecGrid == InitGrid /\ [][NextGrid]_vars

\* ------------------------------------------------------------- SpecRecover
\* awardUserPoints for user 1 and the settled FirstDay.  Process Mortal runs
\* it once and may die at any store call.  Process Later is the participant's
\* later visits: the userStats loader calls awardUserPoints on every render,
\* and its first one comes when Mortal's invocation is over.  A store call
\* that was issued returns, a visit that can happen does, and a lock's 30 s
\* pass.
Later == 2

AwardRevisit(p) ==
  /\ pc[p] = "done"
  /\ op[p].kind = "award"
  /\ p # Mortal
  /\ pc[Mortal] \in {"done", "crashed"}
  /\ pc' = [pc EXCEPT ![p] = "a_vote"]
  /\ UNCHANGED <<storeVars, op, local, histVars, restVars>>

InitRecover ==
  /\ \E mine \in Choices, others \in Choices \cup {Null}, prior \in {NoNum, PriorScore} :
       LET cast == [u \in Users |-> IF u = Awardee THEN mine ELSE others] IN
       /\ InitBallots(cast)
       /\ userHistory = [u \in Users |-> PastHistory(cast, u)]
       /\ userScore = [u \in Users |-> IF u = Awardee THEN prior ELSE NoNum]
       /\ userStats = [u \in Users |->
            PastStats(cast, u, IF u = Awardee /\ prior # NoNum THEN prior ELSE 0)]
       /\ dailyResults = [d \in Days |->
            IF d = FirstDay
              THEN MakeResults(d, CastCount(cast, d, "cooperate"), CastCount(cast, d, "defect"))
              ELSE None]
  /\ dailyFinalized = [d \in Days |-> d = FirstDay]
  /\ op = [p \in Procs |->
             IF p \in {Mortal, Later}
               THEN [kind |-> "award", user |-> Awardee, day |-> FirstDay]
               ELSE [kind |-> "idle", user |-> 1, day |-> FirstDay]]
  /\ pc = [p \in Procs |-> IF p = Mortal THEN "a_vote" ELSE "done"]
  /\ local = [p \in Procs |-> InitLocal]
  /\ InitHist
  /\ now = FirstDay
  /\ InitCalcIdle

AwardStep(p) ==
  \/ AwardGetVote(p)
  \/ AwardGetResults(p)
  \/ AwardGetScore(p)
  \/ AwardGetStats(p)
  \/ AwardSeedScore(p)
  \/ AwardLock(p)
  \/ AwardFreshVote(p)
  \/ AwardWatch(p)
  \/ AwardExec(p)
  \/ ReleaseGet(p)
  \/ ReleaseDel(p)
  \/ AwardRevisit(p)

NextRecover ==
  \/ \E p \in Procs : AwardStep(p)
  \/ Crash(Mortal)
  \/ \E k \in LockKeys : Expire(k)

SpecRecover ==
  /\ InitRecover
  /\ [][NextRecover]_vars
  /\ \A p \in Procs : WF_vars(AwardStep(p))
  /\ \A k \in LockKeys : WF_vars(Expire(k))

\* --------------------------------------------------------------- SpecVisit
\* User 1 voted on FirstDay and was counted; the other users voted all alike
\* or not at all; nothing is settled.  User 1 comes back on a later day
\* `now`: processes 1..NumFinalizers are the userStats loaders of the renders
\* of that visit, each for yesterday = now - 1.  The user's stats may hold a
\* score written by an older version, with no score key yet.
Visitors == 1..NumFinalizers

InitVisit ==
  /\ \E mine \in Choices, others \in Choices \cup {Null}, base \in {0, LegacyScore} :
       LET cast == [u \in Users |-> IF u = Awardee THEN mine ELSE others] IN
       /\ InitBallots(cast)
       /\ userHistory = [u \in Users |-> PastHistory(cast, u)]
       /\ userScore = [u \in Users |-> NoNum]
       /\ userStats = [u \in Users |-> PastStats(cast, u, IF u = Awardee THEN base ELSE 0)]
  /\ now \in (FirstDay + 1)..(NumDays + 1)
  /\ dailyResults = [d \in Days |-> None]
  /\ dailyFinalized = [d \in Days |-> FALSE]
  /\ op = [p \in Procs |->
             IF p \in Visitors
               THEN [kind |-> "load", user |-> Awardee, day |-> now - 1]
               ELSE [kind |-> "idle", user |-> 1, day |-> FirstDay]]
  /\ pc = [p \in Procs |-> IF p \in Visitors THEN "f_lock" ELSE "done"]
  /\ local = [p \in Procs |->
                IF p \in Visitors THEN [InitLocal EXCEPT !.after = "a_vote"] ELSE InitLocal]
  /\ InitHist
  /\ InitCalcIdle

NextVisit ==
  \/ \E p \in Procs : FinalizeLock(p)
  \/ \E p \in Procs : FinalizeGetFinalized(p)
  \/ \E p \in Procs : FinalizeGetResults(p)
  \/ \E p \in Procs : FinalizeMark(p)
  \/ \E p \in Procs : FinalizeGetCooperate(p)
  \/ \E p \in Procs : FinalizeGetDefect(p)
  \/ \E p \in Procs : FinalizeWrite(p)
  \/ \E p \in Procs : ReleaseGet(p)
  \/ \E p \in Procs : ReleaseDel(p)
  \/ \E p \in Procs : AwardGetVote(p)
  \/ \E p \in Procs : AwardGetResults(p)
  \/ \E p \in Procs : AwardGetResultsAgain(p)
  \/ \E p \in Procs : AwardGetScore(p)
  \/ \E p \in Procs : AwardGetStats(p)
  \/ \E p \in Procs : AwardSeedScore(p)
  \/ \E p \in Procs : AwardLock(p)
  \/ \E p \in Procs : AwardFreshVote(p)
  \/ \E p \in Procs : AwardWatch(p)
  \/ \E p \in Procs : AwardExec(p)
  \/ \E p \in Procs : LoadGetStats(p)
  \/ \E p \in Procs : LoadGetScore(p)
  \/ \E p \in Procs : LoadSeedScore(p)
  \/ \E k \in LockKeys : Expire(k)

SpecVisit == InitVisit /\ [][NextVisit]_vars

\* --------------------------------------------------------------- SpecFault
\* The visit of SpecVisit when any store call made under a lock may fail.
NextFault ==
  \/ NextVisit
  \/ \E p \in Procs : FinalizeFail(p)
  \/ \E p \in Procs : AwardFail(p)

SpecFault == InitVisit /\ [][NextFault]_vars

\* -------------------------------------------------------------- SpecScopes
\* Two cycles and all the users at once.  Every user voted on both days of
\* ScopeDays and was counted; nothing is settled.  Processes
\* 1..NumFinalizers run awardUserPoints, each for a user and a day of its
\* own, so each settles its day on the way; the others are idle.
ScopeDays == {FirstDay, FirstDay + 1}

ScopeStats(choice) ==
  updateUserStats(
    updateUserStats(DefaultStats(0), Entry(FirstDay, choice), 0, FirstDay),
    Entry(FirstDay + 1, choice), 0, FirstDay + 1)

InitScopes ==
  /\ \E cast \in [Users -> Choices] :
       /\ userVote = [u \in Users |-> [d \in Days |->
            IF d \in ScopeDays THEN PastVote(d, cast[u]) ELSE None]]
       /\ dailyCooperateCount = [d \in Days |->
            IF d \in ScopeDays THEN CastCount(cast, d, "cooperate") ELSE 0]
       /\ dailyDefectCount = [d \in Days |->
            IF d \in ScopeDays THEN CastCount(cast, d, "defect") ELSE 0]
       /\ userHistory = [u \in Users |->
            <<Entry(FirstDay, cast[u]), Entry(FirstDay + 1, cast[u])>>]
       /\ userStats = [u \in Users |-> ScopeStats(cast[u])]
  /\ userScore = [u \in Users |-> NoNum]
  /\ locks = [k \in LockKeys |-> None]
  /\ dailyResults = [d \in Days |-> None]
  /\ dailyFinalized = [d \in Days |-> FALSE]
  /\ \E who \in [Visitors -> Users], when \in [Visitors -> ScopeDays] :
       op = [p \in Procs |->
               IF p \in Visitors
                 THEN [kind |-> "award", user |-> who[p], day |-> when[p]]
                 ELSE [kind |-> "idle", user |-> 1, day |-> FirstDay]]
  /\ pc = [p \in Procs |-> IF p \in Visitors THEN "a_vote" ELSE "done"]
  /\ local = [p \in Procs |-> InitLocal]
  /\ InitHist
  /\ now = FirstDay + 2
  /\ InitCalcIdle

NextScopes ==
  \/ \E p \in Procs : FinalizeLock(p)
  \/ \E p \in Procs : FinalizeGetFinalized(p)
  \/ \E p \in Procs : FinalizeGetResults(p)
  \/ \E p \in Procs : FinalizeMark(p)
  \/ \E p \in Procs : FinalizeGetCooperate(p)
  \/ \E p \in Procs : FinalizeGetDefect(p)
  \/ \E p \in Procs : FinalizeWrite(p)
  \/ \E p \in Procs : ReleaseGet(p)
  \/ \E p \in Procs : ReleaseDel(p)
  \/ \E p \in Procs : AwardGetVote(p)
  \/ \E p \in Procs : AwardGetResults(p)
  \/ \E p \in Procs : AwardGetResultsAgain(p)
  \/ \E p \in Procs : AwardGetScore(p)
  \/ \E p \in Procs : AwardGetStats(p)
  \/ \E p \in Procs : AwardSeedScore(p)
  \/ \E p \in Procs : AwardLock(p)
  \/ \E p \in Procs : AwardFreshVote(p)
  \/ \E p \in Procs : AwardWatch(p)
  \/ \E p \in Procs : AwardExec(p)
  \/ \E k \in LockKeys : Expire(k)

SpecScopes == InitScopes /\ [][NextScopes]_vars

\* ================================================================== claims
\* ---- outcome rule (SpecCalc)
\* the rule of the documentation in exact integer arithmetic
ReferenceOutcome(c, d) ==
  IF c + d = 0
    THEN [outcome |-> "mixed", pointsForCooperators |-> 0, pointsForDefectors |-> 0]
  ELSE IF 100 * c >= 70 * (c + d)
    THEN [outcome |-> "all-cooperate", pointsForCooperators |-> 3, pointsForDefectors |-> 3]
  ELSE IF 100 * d >= 70 * (c + d)
    THEN [outcome |-> "all-defect", pointsForCooperators |-> 1, pointsForDefectors |-> 1]
  ELSE [outcome |-> "mixed", pointsForCooperators |-> 0, pointsForDefectors |-> 5]

\* C9: for all counts (c, d), calculateResults(c, d) is the reference rule in
\* exact arithmetic, with inclusive thresholds: (7,3) is all-cooperate and
\* (3,7) is all-defect.
C9_MatchesReference ==
  calcOut # None => calcOut = ReferenceOutcome(calcIn[1], calcIn[2])

C9_Witness ==
  /\ calcIn = <<7, 3>>
  /\ calcOut # None
  /\ calcOut.outcome = "all-cooperate"

\* C10: for c + d > 0 the cooperate and the defect threshold are never both
\* met, the outcome is one of the three categories, and both point values
\* are among 0, 1, 3, 5.
C10_OneCategory ==
  (calcOut # None /\ calcIn[1] + calcIn[2] > 0) =>
    LET total == calcIn[1] + calcIn[2]
        cooperateMet == AtLeast(Percent(calcIn[1], total), COOPERATE_THRESHOLD)
        defectMet == AtLeast(Percent(calcIn[2], total), DEFECT_THRESHOLD)
    IN /\ ~(cooperateMet /\ defectMet)
       /\ calcOut.outcome \in {"all-cooperate", "all-defect", "mixed"}
       /\ (calcOut.outcome = "all-cooperate") = cooperateMet
       /\ (calcOut.outcome = "all-defect") = defectMet
       /\ calcOut.pointsForCooperators \in {0, 1, 3, 5}
       /\ calcOut.pointsForDefectors \in {0, 1, 3, 5}

C10_Witness ==
  /\ calcIn = <<3, 7>>
  /\ calcOut # None
  /\ calcOut.outcome = "all-defect"

\* ---- finalization (SpecFinalize)
FinalizeKey == dailyFinalizeLock(FirstDay)

Finalizers == {p \in Procs : op[p].kind = "finalize"}

\* at least one vote of FirstDay was counted before the invocations began
\* (votes cast before carry timestamp 0)
CountedBefore ==
  \E u \in Users : userVote[u][FirstDay] # None /\ userVote[u][FirstDay].timestamp = 0

\* C1: N concurrent finalizeDailyResults on one post and day, at least one
\* vote counted, no lock expiring under its running holder: the results
\* record is written exactly once (never twice; once when all have returned)
\* and every read of it after it first exists returns that one value.
C1_WrittenOnce ==
  FinalizeKey \notin lapsed =>
    /\ Len(written[FirstDay]) <= 1
    /\ (CountedBefore /\ \A p \in Finalizers : pc[p] = "done")
          => Len(written[FirstDay]) = 1
    /\ dailyResults[FirstDay] # None
          => /\ written[FirstDay] # <<>>
             /\ dailyResults[FirstDay] = written[FirstDay][1]
    /\ \A p \in Procs :
          local[p].existingResultsData \in {Unread, None, dailyResults[FirstDay]}

\* all finalizers returned, one of them after finding the lock taken or the
\* results present, with a vote landing meanwhile
C1_Witness ==
  /\ FinalizeKey \notin lapsed
  /\ CountedBefore
  /\ \A p \in Finalizers : pc[p] = "done"
  /\ Len(written[FirstDay]) = 1
  /\ dailyResults[FirstDay] = written[FirstDay][1]
  /\ \E p \in Procs : verdict[p].result = "accepted"

\* C4 as stated: once the results record of a day exists no step replaces
\* it by a different value (lock expiry under a stalled holder and late
\* counter increments included).
C4_NeverOverwritten ==
  [][\A d \in Days : dailyResults[d] # None => dailyResults'[d] = dailyResults[d]]_vars

\* C6 as stated: releaseLock never deletes a lock record whose stored token
\* differs from the caller's token.
C6_ReleaseOwnOnly ==
  [][\A p \in Procs :
       (pc[p] = "r_del" /\ pc'[p] # "r_del") =>
          LET k == local[p].lockKey
          IN (locks[k] # None /\ locks[k].id # local[p].lockId) => locks'[k] = locks[k]]_vars

\* ---- awarding (SpecAward)
AwardKey == userAwardLock(Awardee, FirstDay)

AwardeeVote == userVote[Awardee][FirstDay]

\* the score the awardee had when the invocations began: what the stats
\* written by its submission recorded (nothing writes the stats here)
ScoreBefore == userStats[Awardee].totalScore

ScoreNow == IF userScore[Awardee] = NoNum THEN ScoreBefore ELSE userScore[Awardee]

C3_AtMostOnce ==
  \A u \in Users, d \in Days : applied[u][d] <= 1

\* p is inside the section its lock guards
InSection(p, k) == Running(p) /\ local[p].lockKey = k

\* p is at its acquire of lock key k
Acquiring(p, k) ==
  \/ pc[p] = "f_lock" /\ k = dailyFinalizeLock(op[p].day)
  \/ pc[p] = "a_lock" /\ k = userAwardLock(op[p].user, op[p].day)

\* C5: while a lock record exists and has not expired every other acquire on
\* its key fails and leaves the record unchanged, so at most one caller at a
\* time is inside the section of an unexpired lock.
C5_MutualExclusion ==
  /\ [](\A k \in LockKeys :
          k \notin lapsed => Cardinality({p \in Procs : InSection(p, k)}) <= 1)
  /\ [][\A k \in LockKeys, p \in Procs :
          (Acquiring(p, k) /\ locks[k] # None /\ pc'[p] # pc[p]) =>
             /\ locks'[k] = locks[k]
             /\ ~InSection(p, k)'
             /\ pc'[p] = "done"]_vars

\* one caller has just taken the award lock while another, who was at its
\* acquire too, has returned with nothing awarded
C5_Witness ==
  /\ AwardKey \notin lapsed
  /\ applied[Awardee][FirstDay] = 0
  /\ \E p, q \in Procs :
       /\ p # q
       /\ Holds(p, AwardKey) /\ pc[p] = "a_fresh"
       /\ pc[q] = "done"

\* ---- lock expiry (SpecCrash)
\* p died inside the section of k and its record is still the one stored
CrashedHolder(p, k) == pc[p] = "crashed" /\ Holds(p, k)

\* C7: a lock whose holder crashed without releasing it is acquired by a
\* later caller once its TTL has elapsed.
C7_RetakenAfterCrash ==
  CrashedHolder(Mortal, FinalizeKey)
    ~> (\E q \in Procs : q # Mortal /\ Running(q) /\ Holds(q, FinalizeKey))

\* the holder died before its release deleted anything, and another caller
\* now holds the key
C7_Witness ==
  /\ pc[Mortal] = "crashed"
  /\ local[Mortal].lockKey = FinalizeKey
  /\ local[Mortal].lockId = createLockId(Mortal)
  /\ \E q \in Procs : q # Mortal /\ Running(q) /\ Holds(q, FinalizeKey)

\* ---- vote submission (SpecVote)
Cycle == FirstDay

\* submissions that carried a valid choice
Submissions == {p \in Procs : verdict[p].result # "invalid"}

StoredVotes(choice) ==
  {u \in Users : userVote[u][Cycle] # None /\ userVote[u][Cycle].choice = choice}

\* C8: of any number of concurrent or repeated submissions by one
\* participant for one cycle exactly one is accepted: the stored vote is the
\* accepted one's, every other is turned away as already voted, and the
\* counters rose by exactly 1 for the participant.
C8_OneVoteAccepted ==
  /\ Cardinality({p \in Procs : verdict[p].result = "accepted"}) <= 1
  /\ (Submissions # {} /\ \A p \in Procs : pc[p] = "done") =>
       \E w \in Submissions :
         /\ verdict[w].result = "accepted"
         /\ \A q \in Submissions \ {w} : verdict[q].result \in {"already", "voted"}
         /\ userVote[Submitter][Cycle] # None
         /\ userVote[Submitter][Cycle].choice = verdict[w].choice
         /\ userVote[Submitter][Cycle].timestamp = w
         /\ dailyCooperateCount[Cycle] = Cardinality(StoredVotes("cooperate"))
         /\ dailyDefectCount[Cycle] = Cardinality(StoredVotes("defect"))

\* two submissions with different choices raced; one won, the other was told
\* it had already voted
C8_Witness ==
  /\ \A p \in Procs : pc[p] = "done"
  /\ \E w, q \in Procs :
       /\ verdict[w].result = "accepted"
       /\ verdict[q].result = "already"
       /\ verdict[q].choice # verdict[w].choice
       /\ userVote[Submitter][Cycle].choice = verdict[w].choice


\* ---- the stored vote (SpecDay)
\* C11: across submissions, finalizations and awards a stored vote keeps its
\* choice, timestamp and day, is never removed, and its awarded flag only
\* goes from false to true, never back.
C11_VoteImmutable ==
  [][\A u \in Users, d \in Days :
       userVote[u][d] # None =>
         /\ userVote'[u][d] # None
         /\ userVote'[u][d].choice = userVote[u][d].choice
         /\ userVote'[u][d].timestamp = userVote[u][d].timestamp
         /\ userVote'[u][d].day = userVote[u][d].day
         /\ userVote[u][d].pointsAwarded => userVote'[u][d].pointsAwarded]_vars

\* the vote cast before was awarded, and a second session's submission with
\* the other choice was turned away
C11_Witness ==
  /\ AwardeeVote # None
  /\ AwardeeVote.pointsAwarded
  /\ AwardeeVote.timestamp = 0
  /\ \E q \in Procs :
       /\ op[q].user = Awardee
       /\ verdict[q].result = "already"
       /\ verdict[q].choice # AwardeeVote.choice

\* ---- the amount awarded (SpecDay)
\* what a committed award transaction of (u, d) adds to the score key
AwardedAmount(u) ==
  userScore'[u] - (IF userScore[u] = NoNum THEN 0 ELSE userScore[u])

\* C12: an award applied for a participant and cycle adds exactly the
\* pointsForCooperators of that cycle's results if the vote's choice is
\* cooperate and exactly its pointsForDefectors if it is defect (the results
\* record being the one stored, where only one was ever written, and in any
\* case one written for that cycle).
C12_AmountMatchesChoice ==
  [][\A u \in Users, d \in Days :
       applied'[u][d] = applied[u][d] + 1 =>
         /\ Len(written[d]) = 1 =>
               AwardedAmount(u) =
                 (IF userVote[u][d].choice = "cooperate"
                    THEN dailyResults[d].pointsForCooperators
                    ELSE dailyResults[d].pointsForDefectors)
         /\ \E i \in 1..Len(written[d]) :
               AwardedAmount(u) =
                 (IF userVote[u][d].choice = "cooperate"
                    THEN written[d][i].pointsForCooperators
                    ELSE written[d][i].pointsForDefectors)]_vars

\* a defector was paid on a mixed day
C12_Witness ==
  /\ AwardeeVote # None
  /\ applied[Awardee][FirstDay] = 1
  /\ AwardeeVote.choice = "defect"
  /\ Len(written[FirstDay]) = 1
  /\ dailyResults[FirstDay].outcome = "mixed"
  /\ userScore[Awardee] = MIXED_DEFECT_POINTS

\* ---- nothing to settle (SpecEmpty)
\* p returns from releaseLock in this step
Released(p) == pc[p] \in {"r_get", "r_del"} /\ pc'[p] \notin {"r_get", "r_del"}

\* C13: finalization of a cycle whose counters are both zero or absent
\* writes no results and no finalized marker and releases the finalize lock,
\* and an award attempt for that cycle returns without changing any score.
C13_NothingToSettle ==
  /\ [](/\ \A d \in Days : dailyResults[d] = None /\ ~dailyFinalized[d]
        /\ \A u \in Users : userScore[u] = NoNum
        /\ \A p \in Procs : pc[p] \notin {"f_write", "f_mark", "a_score"})
  /\ [][\A p \in Procs :
          /\ (pc[p] = "f_counts" /\ pc'[p] # "f_counts") => pc'[p] = "r_get"
          /\ Released(p) =>
                LET k == local[p].lockKey
                IN locks'[k] = None \/ locks'[k].id # local[p].lockId]_vars

\* an award attempt for a stored vote ran the finalization itself, found
\* nothing settled and returned; no lock is left
C13_Witness ==
  /\ AwardeeVote # None
  /\ \A p \in Procs : pc[p] = "done"
  /\ \A k \in LockKeys : locks[k] = None
  /\ FinalizeKey \notin lapsed
  /\ dailyResults[FirstDay] = None

\* ---- early exits of awardUserPoints (SpecDay)
\* C14: with no vote stored for the cycle, or a vote already marked awarded,
\* awardUserPoints returns at once and leaves the vote, the score and every
\* lock key (the whole store) as they were; no award lock is created.
C14_EarlyExitNoOp ==
  [][\A p \in Procs :
       (/\ pc[p] = "a_vote"
        /\ pc'[p] # "a_vote"
        /\ \/ userVote[op[p].user][op[p].day] = None
           \/ userVote[op[p].user][op[p].day].pointsAwarded) =>
          /\ pc'[p] = "done"
          /\ storeVars' = storeVars
          /\ applied' = applied]_vars

\* user 1 has no vote: an award attempt for them has returned, nothing is
\* locked and no score key exists
C14_Witness ==
  /\ AwardeeVote = None
  /\ \E p \in Procs : op[p].kind = "award" /\ pc[p] = "done"
  /\ \A k \in LockKeys : locks[k] = None
  /\ userScore[Awardee] = NoNum
  /\ lapsed = {}

\* ---- lock contention (SpecDay)
\* the cumulative score of u as every reader derives it: the score key, else
\* the totalScore of the stored stats, else 0
CumulativeScore(u) ==
  IF userScore[u] # NoNum THEN userScore[u]
  ELSE IF userStats[u] # None THEN userStats[u].totalScore
  ELSE 0

\* C15: a finalizeDailyResults or awardUserPoints that does not obtain its
\* lock returns normally and leaves the results, the finalized marker, the
\* vote, the score and the holder's lock record unchanged (the score seeding
\* that precedes the award lock does not change the cumulative score).
C15_ContentionReturns ==
  [][\A p \in Procs :
       /\ \A k \in LockKeys :
            (Acquiring(p, k) /\ locks[k] # None /\ pc'[p] # pc[p]) =>
               /\ storeVars' = storeVars
               /\ pc'[p] = (IF pc[p] = "f_lock" THEN local[p].after ELSE "done")
               /\ local'[p].lockKey = NoKey
       /\ (pc[p] = "a_seed" /\ pc'[p] # "a_seed") =>
               /\ CumulativeScore(op[p].user)' = CumulativeScore(op[p].user)
               /\ userVote' = userVote
               /\ dailyResults' = dailyResults
               /\ dailyFinalized' = dailyFinalized
               /\ locks' = locks]_vars

\* user 1 voted and was counted before; one award attempt holds a lock while
\* another has returned with nothing awarded and nothing lapsed: it found a
\* lock taken
C15_Witness ==
  /\ AwardeeVote # None
  /\ AwardeeVote.timestamp = 0
  /\ ~AwardeeVote.pointsAwarded
  /\ applied[Awardee][FirstDay] = 0
  /\ lapsed = {}
  /\ \E p, q \in Procs :
       /\ p # q
       /\ op[p].kind = "award" /\ op[q].kind = "award"
       /\ pc[q] = "done"
       /\ Running(p)
       /\ \E k \in LockKeys : Holds(p, k)

\* ---- failing store calls (SpecOutage)
\* C16 as stated: when a store call of a submission fails no partial state
\* is committed: once the submissions have ended there is no stored vote
\* that the counter of its choice was not incremented for.
C16_NoPartialState ==
  (\A p \in Procs : pc[p] = "done") =>
    /\ dailyCooperateCount[Cycle] = Cardinality(StoredVotes("cooperate"))
    /\ dailyDefectCount[Cycle] = Cardinality(StoredVotes("defect"))

\* ---- invalid choices (SpecVote)
\* C17: a submission whose choice is not cooperate or defect (null or any
\* other value) is rejected before any store mutation: the vote, the
\* counters, the history and the stats (the whole store) stay as they were.
C17_InvalidRejected ==
  [][\A p \in Procs :
       (pc[p] = "v_set" /\ pc'[p] # "v_set" /\ verdict'[p].choice \notin Choices) =>
          /\ pc'[p] = "done"
          /\ storeVars' = storeVars]_vars

\* a submission with a choice that is neither of the two was turned away
\* while nobody had voted: nothing is stored for the submitter
C17_Witness ==
  /\ \E p \in Procs : verdict[p].choice = "betray" /\ pc[p] = "done"
  /\ \E p \in Procs : verdict[p].choice = Null /\ pc[p] = "done"
  /\ userVote[Submitter][Cycle] = None
  /\ userHistory[Submitter] \in {<<>>, LegacyHistory}

\* ---- concurrent participants (SpecPoll)
\* the submissions accepted with the given choice
Accepted(choice) ==
  {p \in Procs : verdict[p].result = "accepted" /\ verdict[p].choice = choice}

\* C18: N participants submitting concurrently for one cycle: no vote is
\* counted twice, and once all submissions are complete the cooperate and
\* the defect counter equal the numbers of accepted (and stored) cooperate
\* and defect votes: none is lost.
C18_CountersMatchVotes ==
  /\ dailyCooperateCount[Cycle] <= Cardinality(Accepted("cooperate"))
  /\ dailyDefectCount[Cycle] <= Cardinality(Accepted("defect"))
  /\ (\A p \in Procs : pc[p] = "done") =>
       /\ dailyCooperateCount[Cycle] = Cardinality(Accepted("cooperate"))
       /\ dailyDefectCount[Cycle] = Cardinality(Accepted("defect"))
       /\ dailyCooperateCount[Cycle] = Cardinality(StoredVotes("cooperate"))
       /\ dailyDefectCount[Cycle] = Cardinality(StoredVotes("defect"))

\* two participants voted, one each way, and both were counted
C18_Witness ==
  /\ \A p \in Procs : pc[p] = "done"
  /\ dailyCooperateCount[Cycle] = 1
  /\ dailyDefectCount[Cycle] = 1
  /\ \E u, v \in Users :
       /\ u # v
       /\ userVote[u][Cycle] # None /\ userVote[u][Cycle].choice = "cooperate"
       /\ userVote[v][Cycle] # None /\ userVote[v][Cycle].choice = "defect"

\* ---- the counters (SpecDay)
\* p makes the incrBy of its accepted vote in this step
Counting(p, choice) ==
  /\ pc[p] = "v_incr"
  /\ pc'[p] # "v_incr"
  /\ verdict[p].result = "accepted"
  /\ verdict[p].choice = choice

\* C19: the cooperate and the defect counter of a cycle never decrease: no
\* submission, finalization or award decrements or overwrites them; they
\* change only by the increment of 1 an accepted vote makes on the counter
\* of its choice.
C19_CountersMonotonic ==
  [][\A d \in Days :
       /\ dailyCooperateCount'[d] >= dailyCooperateCount[d]
       /\ dailyDefectCount'[d] >= dailyDefectCount[d]
       /\ dailyCooperateCount'[d] # dailyCooperateCount[d] =>
            /\ dailyCooperateCount'[d] = dailyCooperateCount[d] + 1
            /\ dailyDefectCount'[d] = dailyDefectCount[d]
            /\ \E p \in Procs : op[p].day = d /\ Counting(p, "cooperate")
       /\ dailyDefectCount'[d] # dailyDefectCount[d] =>
            /\ dailyDefectCount'[d] = dailyDefectCount[d] + 1
            /\ dailyCooperateCount'[d] = dailyCooperateCount[d]
            /\ \E p \in Procs : op[p].day = d /\ Counting(p, "defect")]_vars

\* a late vote was counted on top of an earlier one, the day was settled
\* and user 1 was awarded
C19_Witness ==
  /\ dailyCooperateCount[FirstDay] + dailyDefectCount[FirstDay] >= 2
  /\ \E p \in Procs : verdict[p].result = "accepted" /\ pc[p] = "done"
  /\ written[FirstDay] # <<>>
  /\ applied[Awardee][FirstDay] = 1

\* ---- settlement after a crash (SpecCrash)
\* p died holding the finalize lock of FirstDay, a vote having been counted
\* and no results written
DiedBeforeWrite(p) ==
  /\ pc[p] = "crashed"
  /\ local[p].lockKey = FinalizeKey
  /\ dailyCooperateCount[FirstDay] + dailyDefectCount[FirstDay] > 0
  /\ dailyResults[FirstDay] = None

\* C20: if a caller crashes while holding the finalize lock of a cycle with
\* a counted vote, before writing the outcome, and callers keep invoking
\* finalizeDailyResults for the cycle, the results of the cycle eventually
\* exist (the lock's expiry clears it; nothing else unlocks).
C20_SettledAfterCrash ==
  DiedBeforeWrite(Mortal) ~> dailyResults[FirstDay] # None

\* the holder died before its write; a later caller that found no results
\* has read the counters, written them and is about to release
C20_Witness ==
  /\ pc[Mortal] = "crashed"
  /\ local[Mortal].lockKey = FinalizeKey
  /\ Len(written[FirstDay]) = 1
  /\ dailyResults[FirstDay] = written[FirstDay][1]
  /\ \E q \in Procs :
       /\ q # Mortal
       /\ pc[q] = "r_get"
       /\ local[q].cooperateCountStr > 0

\* ---- the settled outcome (SpecFinalize)
\* C30: a results record that finalizeDailyResults writes agrees with the
\* counters its invocation read after taking the finalize lock: its
\* cooperateCount and defectCount are those two values, its totalVotes is
\* their sum and positive, and its outcome and point values are
\* calculateResults of the two.
C30_OutcomeMatchesCounters ==
  [][\A p \in Procs :
       (pc[p] = "f_write" /\ pc'[p] = "r_get") =>
          LET d == op[p].day
              c == local[p].cooperateCountStr
              n == local[p].defectCountStr
              r == dailyResults'[d]
              calc == calculateResults(c, n)
          IN /\ local[p].lockKey = dailyFinalizeLock(d)
             /\ r # None
             /\ r = written'[d][Len(written'[d])]
             /\ r.day = d
             /\ r.cooperateCount = c
             /\ r.defectCount = n
             /\ r.totalVotes = r.cooperateCount + r.defectCount
             /\ r.totalVotes > 0
             /\ r.outcome = calc.outcome
             /\ r.pointsForCooperators = calc.pointsForCooperators
             /\ r.pointsForDefectors = calc.pointsForDefectors]_vars

\* one vote was cast before and a late one of the other choice was counted
\* before the finalizer read both counters: the day was written as mixed on
\* 1 to 1
C30_Witness ==
  /\ Len(written[FirstDay]) = 1
  /\ dailyResults[FirstDay] # None
  /\ dailyResults[FirstDay].cooperateCount = 1
  /\ dailyResults[FirstDay].defectCount = 1
  /\ dailyResults[FirstDay].outcome = "mixed"
  /\ \E p \in Procs : verdict[p].result = "accepted"

\* ---- streaks (SpecStreak)
\* the days present in a history
DaysIn(history) == {history[i].day : i \in 1..Len(history)}

\* the number k with today, today-1, ..., today-(k-1) present and today-k not
RunEndingAt(present, today) ==
  CHOOSE k \in 0..(Cardinality(present) + 1) :
    /\ \A j \in 0..(k - 1) : (today - j) \in present
    /\ (today - k) \notin present

\* C24 as stated: for every history, in any order and with repeated entries
\* for one day, currentStreak is the number k such that today, today-1, ...,
\* today-(k-1) are all present and today-k is not; 0 whenever today is absent.
C24_CurrentStreakCounts ==
  callOut # None =>
    callOut.currentStreak = RunEndingAt(DaysIn(callIn.history), callIn.today)

\* the length of the longest run of consecutive days among those present
LongestRun(present) ==
  IF present = {} THEN 0
  ELSE LET runs == {<<a, b>> \in present \X present :
                      a <= b /\ \A d \in a..b : d \in present}
           best == CHOOSE r \in runs : \A q \in runs : q[2] - q[1] <= r[2] - r[1]
       IN best[2] - best[1] + 1

\* C25 as stated: for every history, in any order and with repeated entries
\* for one day, longestStreak is the length of the longest run of
\* calendar-consecutive days among the days present, the final run counted;
\* 0 for the empty history.
C25_LongestStreakIsLongestRun ==
  callOut # None => callOut.longestStreak = LongestRun(DaysIn(callIn.history))

\* the same two with their domains narrowed to what calculateStreak does
\* compute: no day entered twice and none after today
NoRepeats(history) == Cardinality(DaysIn(history)) = Len(history)

NoneAhead(history, today) == \A d \in DaysIn(history) : d <= today

StreaksOnDistinctDays ==
  (callOut # None /\ NoRepeats(callIn.history)) =>
    /\ callOut.longestStreak = LongestRun(DaysIn(callIn.history))
    /\ NoneAhead(callIn.history, callIn.today) =>
         callOut.currentStreak = RunEndingAt(DaysIn(callIn.history), callIn.today)

\* ---- malformed history (SpecStats)
\* an entry that holds a day string and a choice of cooperate, defect or
\* null: an object or its JSON with both, or a legacy day string, which
\* carries no choice
WellFormed(entry) ==
  \/ entry.form = "date"
  \/ /\ entry.form \in {"object", "json"}
     /\ entry.day # NoDay
     /\ entry.choice \in {"cooperate", "defect", Null}

OwnChoice(entry) == IF entry.form = "date" THEN Null ELSE entry.choice

\* the well-formed entries of a history in their order, each as (day, choice)
RECURSIVE WellFormedOf(_)
WellFormedOf(history) ==
  IF history = <<>> THEN <<>>
  ELSE (IF WellFormed(Head(history))
          THEN <<Entry(Head(history).day, OwnChoice(Head(history)))>>
          ELSE <<>>)
       \o WellFormedOf(Tail(history))

\* C26: updateUserStats returns stats whatever the stored history holds: the
\* returned history is the well-formed entries of the stored one followed by
\* the new vote, in their order and each with its own choice; every other
\* entry is dropped, and a legacy day string comes out with the null choice,
\* never a guessed one.
C26_MalformedDropped ==
  callOut # None =>
    /\ callOut.history =
         WellFormedOf(Append(callIn.currentStats.history,
                             Entry(callIn.newVote.day, callIn.newVote.choice)))
    /\ callOut.totalVotes = callIn.currentStats.totalVotes + 1
    /\ callOut.totalScore = callIn.currentStats.totalScore + callIn.points
    /\ \A i \in 1..Len(callOut.history) :
         callOut.history[i].choice \in {"cooperate", "defect", Null}

\* a string that is neither JSON nor a day was dropped, the legacy day
\* string after it was kept with the null choice, and the vote follows
C26_Witness ==
  /\ callOut # None
  /\ callIn.fn = "updateUserStats"
  /\ Len(callIn.currentStats.history) = 2
  /\ callIn.currentStats.history[1].form = "junk"
  /\ callIn.currentStats.history[2].form = "date"
  /\ callOut.history = <<Entry(callIn.currentStats.history[2].day, Null),
                         Entry(VoteDay, "defect")>>

\* ---- the share grid (SpecGrid)
Smaller(a, b) == IF a <= b THEN a ELSE b

\* rows needed for m symbols at 10 a row
RowsFor(m) == (m + 9) \div 10

\* the symbol of the blank, cooperate or defect choice
SymbolOf(choice) ==
  CASE choice = "cooperate" -> HANDSHAKE
    [] choice = "defect" -> CROSSED_SWORDS
    [] choice = Null -> WHITE_SQUARE

\* C28: the grid is the header line followed by one symbol for each of the
\* last 30 entries of the history in their order (all of them when there
\* are fewer), with a line break after every 10 symbols and after a trailing
\* partial row; it holds min(length of history, 30) symbols.
C28_GridOfLastThirty ==
  callOut # None =>
    LET history == callIn.history
        m == Smaller(Len(history), 30)
        first == Len(history) - m
        body == [q \in 1..(m + RowsFor(m)) |->
                   LET row == (q - 1) \div 11
                       col == (q - 1) % 11
                       j == row * 10 + col + 1
                   IN IF col < 10 /\ j <= m
                        THEN SymbolOf(history[first + j].choice)
                        ELSE LineBreak]
    IN /\ callOut = <<GridHeader, LineBreak>> \o body
       /\ Cardinality({q \in 1..Len(callOut) :
                         callOut[q] \notin {GridHeader, LineBreak}}) = m

\* a history of more than 30 entries: three full rows of its last 30
C28_Witness ==
  /\ callOut # None
  /\ callIn.fn = "generateShareGrid"
  /\ Len(callIn.history) = 32
  /\ Len(callOut) = 2 + 33
  /\ callOut[3] = getEmojiForChoice(callIn.history[3].choice)
  /\ callOut[3] # getEmojiForChoice(callIn.history[1].choice)

\* ---- credit and flag (SpecAward)
\* what the cycle FirstDay has paid the awardee according to the flag on
\* their vote
PaidByFlag ==
  IF AwardeeVote.pointsAwarded THEN PointsFor(AwardeeVote, dailyResults[FirstDay]) ELSE 0

\* C29 as stated: in every reachable state the participant's cumulative
\* score is their starting score plus the points of exactly the cycles whose
\* vote is marked awarded: never the score raised with the flag unset nor
\* the flag set with the score not raised.
C29_CreditWithFlag ==
  CumulativeScore(Awardee) = ScoreBefore + PaidByFlag

\* the same where no award lock expired under its running holder
CreditWithFlagUnlapsed ==
  AwardKey \notin lapsed => CumulativeScore(Awardee) = ScoreBefore + PaidByFlag

\* ---- award after a crash (SpecRecover)
\* the cycle has paid the awardee exactly once: one committed transaction,
\* the vote marked, the score up by the points of the choice
CreditedOnce ==
  /\ applied[Awardee][FirstDay] = 1
  /\ AwardeeVote.pointsAwarded
  /\ userScore[Awardee] = ScoreBefore + PointsFor(AwardeeVote, dailyResults[FirstDay])

\* C21: if an awardUserPoints invocation dies at any point (before the lock,
\* holding it before the commit, or after the commit before the release),
\* then once the lock's TTL has elapsed a later invocation for the same
\* participant and cycle completes, and from then on the cycle is credited
\* exactly once: not never, and at no time twice.
C21_CreditedOnceAfterCrash ==
  /\ [](applied[Awardee][FirstDay] <= 1)
  /\ (pc[Mortal] = "crashed") ~> [](CreditedOnce)

\* the first invocation died holding the award lock with nothing committed;
\* the lock expired and a later visit made the award
C21_Witness ==
  /\ pc[Mortal] = "crashed"
  /\ local[Mortal].lockKey = AwardKey
  /\ CreditedOnce
  /\ AwardeeVote.pointsAwardedAt = Later
  /\ pc[Later] = "done"

\* ---- the participant's return (SpecVisit)
\* every loader of the visit has returned its stats
VisitOver == \A p \in Visitors : ledger[p] # None

\* C22 as stated: a participant who voted in a cycle with a counted vote is
\* credited that cycle's points on their next visit after the cycle has
\* ended, however many cycles later the visit comes: when the loaders of
\* the visit have returned the vote is marked awarded and was paid once or
\* more.
C22_CreditedOnReturn ==
  VisitOver =>
    /\ AwardeeVote.pointsAwarded
    /\ applied[Awardee][FirstDay] >= 1

\* the same for a visit on the day after the vote
CreditedOnNextDay ==
  (VisitOver /\ now = FirstDay + 1) =>
    /\ AwardeeVote.pointsAwarded
    /\ applied[Awardee][FirstDay] >= 1

\* ---- the returned ledger (SpecVisit)
\* C23 as stated: the stats a load returns carry the currentStreak and the
\* longestStreak that calculateStreak gives on the stored history at the
\* time of the load, and the value of the score key when the load found
\* that key.
C23_LedgerRecomputed ==
  [][\A p \in Procs :
       ledger'[p] # ledger[p] =>
         LET u == op[p].user
             streak == calculateStreak(NormalizeAll(userHistory[u]), now)
         IN /\ ledger'[p].currentStreak = streak.currentStreak
            /\ ledger'[p].longestStreak = streak.longestStreak
            /\ (pc[p] = "l_score" /\ userScore[u] # NoNum) =>
                  ledger'[p].totalScore = userScore[u]]_vars

\* the score half of it alone
LedgerScoreIsKey ==
  [][\A p \in Procs :
       (ledger'[p] # ledger[p] /\ pc[p] = "l_score" /\ userScore[op[p].user] # NoNum) =>
          ledger'[p].totalScore = userScore[op[p].user]]_vars

\* ---- the stored histories (SpecMidnight)
Entries(history) == {history[i] : i \in 1..Len(history)}

AcceptedVotes == {p \in Procs : verdict[p].result = "accepted"}

\* C27 as stated: after any interleaving of submissions of one participant,
\* sessions submitting for different days at once included, the stored
\* history and the history in the stats hold the (day, choice) entry of
\* every accepted vote.
C27_HistoryKeepsAcceptedVotes ==
  (\A p \in Procs : pc[p] = "done") =>
     \A p \in AcceptedVotes :
        /\ Entry(op[p].day, verdict[p].choice) \in Entries(userHistory[Submitter])
        /\ userStats[Submitter] # None
        /\ Entry(op[p].day, verdict[p].choice) \in Entries(userStats[Submitter].history)

\* what the handler does keep: a submission that returned alone on its day
\* and whose read-to-write windows no other session's writes fell into is
\* not in question here; with one accepted vote in all, its entry is in both
\* histories
LoneVoteIsKept ==
  ((\A p \in Procs : pc[p] = "done") /\ Cardinality(AcceptedVotes) = 1) =>
     \A p \in AcceptedVotes :
        /\ Entry(op[p].day, verdict[p].choice) \in Entries(userHistory[Submitter])
        /\ Entry(op[p].day, verdict[p].choice) \in Entries(userStats[Submitter].history)

\* ---- the marker and the outcome (SpecFinalize)
\* the finalizers that set the marker alone
Marking == {p \in Procs : pc[p] = "f_mark"}

\* C31: whenever the finalized marker of a day is present its results are
\* present, and an invocation that found the results present and the marker
\* absent sets the marker and leaves the results as they are.
C31_MarkerWithOutcome ==
  /\ [](\A d \in Days : dailyFinalized[d] => dailyResults[d] # None)
  /\ [][\A p \in Marking :
          pc'[p] = "r_get" =>
            /\ dailyFinalized'[op[p].day]
            /\ dailyResults' = dailyResults
            /\ dailyResults[op[p].day] # None]_vars

\* a finalizer has set the marker alone and goes on to release its lock
C31_Witness ==
  \E p \in Procs :
     /\ op[p].kind = "finalize"
     /\ pc[p] = "r_get"
     /\ local[p].alreadyFinalized = "no"
     /\ local[p].existingResultsData \notin {None, Unread}
     /\ dailyFinalized[op[p].day]

\* ---- finalizing a settled day (SpecVisit)
\* the invocations about to enter finalizeDailyResults for a day whose
\* results are stored
EnteringSettled ==
  {p \in Procs : pc[p] = "f_lock" /\ dailyResults[op[p].day] # None}

\* C32 as stated: finalizeDailyResults called for a day whose results exist
\* returns at once, taking no lock and writing no key.
C32_FastPathTakesNoLock ==
  [][\A p \in EnteringSettled :
       pc'[p] # pc[p] => (storeVars' = storeVars /\ pc'[p] = local[p].after)]_vars

\* what holds of the caller: awardUserPoints, finding the results stored,
\* goes on to the score without calling finalizeDailyResults
AwardSkipsFinalize ==
  [][\A p \in Procs :
       (pc[p] = "a_results" /\ dailyResults[op[p].day] # None /\ pc'[p] # pc[p]) =>
          (pc'[p] = "a_score" /\ storeVars' = storeVars)]_vars

\* ---- a rejected commit (SpecAward)
\* the awarders whose exec has returned and which are releasing their lock
PastExec ==
  {p \in Procs : pc[p] \in {"r_get", "r_del"} /\ local[p].freshVote # None}

\* C33 as stated: an awarder whose commit was rejected retries under its lock,
\* so once its exec is behind it and it goes on to release and return, the
\* vote it was to award is marked awarded.
C33_RejectedCommitRetried ==
  \A p \in PastExec : userVote[op[p].user][op[p].day].pointsAwarded

\* what holds: an exec that is not rejected marks the vote and adds the points
CleanCommitApplies ==
  [][\A p \in Procs :
       (pc[p] = "a_exec" /\ ~local[p].dirty /\ pc'[p] # pc[p]) =>
          /\ userVote'[op[p].user][op[p].day].pointsAwarded
          /\ userScore'[op[p].user] =
               (IF userScore[op[p].user] = NoNum THEN 0 ELSE userScore[op[p].user])
               + local[p].points]_vars

\* ---- locks released on return (SpecFault)
\* the labels at which an invocation is between taking a lock and having
\* released it
UnderLock == FinalizeCalls \cup AwardCalls \cup {"r_get", "r_del"}

\* C34: a lock record is in the store only while the invocation that created
\* it is still inside the function that took it; an invocation that has
\* returned from finalizeDailyResults or awardUserPoints, by whichever path,
\* a store error under the lock included, has left no record of its own.
C34_ReleasedOnReturn ==
  \A k \in LockKeys, p \in Procs :
     (locks[k] # None /\ locks[k].id = createLockId(p)) =>
        (pc[p] \in UnderLock /\ local[p].lockKey = k)

\* every loader has returned, one of them after an award it committed, no
\* lock expired, and no lock record is left
C34_Witness ==
  /\ \A p \in Visitors : ledger[p] # None
  /\ applied[Awardee][FirstDay] = 1
  /\ lapsed = {}
  /\ \A k \in LockKeys : locks[k] = None

\* the same after returns through the error path only: nothing was settled
\* although user 1 was counted
ReturnedThroughErrors ==
  /\ \A p \in Visitors : ledger[p] # None
  /\ now = FirstDay + 1
  /\ dailyResults[FirstDay] = None
  /\ lapsed = {}
  /\ \A k \in LockKeys : locks[k] = None

\* ---- the ledger's streak fields (SpecLedger)
\* what calculateStreak gives on the history a call returned
Recomputed == calculateStreak(callOut.history, callIn.today)

\* C35 as stated: the currentStreak and the longestStreak updateUserStats
\* returns are the values calculateStreak derives from the returned history;
\* no stored streak value has a part in them.
C35_StreaksFromHistoryAlone ==
  callOut # None =>
    /\ callOut.currentStreak = Recomputed.currentStreak
    /\ callOut.longestStreak = Recomputed.longestStreak

\* what holds: currentStreak is the recomputed one, and longestStreak is the
\* recomputed one unless the stored one is larger
StreaksAsReturned ==
  callOut # None =>
    /\ callOut.currentStreak = Recomputed.currentStreak
    /\ callOut.longestStreak =
         (IF Recomputed.longestStreak > callIn.currentStats.longestStreak
            THEN Recomputed.longestStreak ELSE callIn.currentStats.longestStreak)

\* ---- the ledger over a sequence of votes (SpecLedger)
\* the participant's ledger: what the last call returned, or what the call
\* under way was given
Ledger == IF callOut # None THEN callOut ELSE callIn.currentStats

Added(choice, which) == IF choice = which THEN 1 ELSE 0

\* C36: over any sequence of updateUserStats calls the ledger's longestStreak
\* never decreases, a missed day that resets currentStreak included; and
\* each call raises totalVotes by 1, cooperateCount by 1 for a cooperate vote
\* and defectCount by 1 for a defect vote and neither otherwise, and
\* totalScore by the points given.
C36_LongestStreakKept ==
  [][/\ Ledger'.longestStreak >= Ledger.longestStreak
     /\ (callOut = None /\ callOut' # None) =>
          /\ callOut'.totalVotes = callIn.currentStats.totalVotes + 1
          /\ callOut'.cooperateCount =
               callIn.currentStats.cooperateCount + Added(callIn.newVote.choice, "cooperate")
          /\ callOut'.defectCount =
               callIn.currentStats.defectCount + Added(callIn.newVote.choice, "defect")
          /\ callOut'.totalScore = callIn.currentStats.totalScore + callIn.points]_vars

\* a vote after a missed day: the streak of two before it is over, the
\* current streak is back at 1 and the longest is still 2
C36_Witness ==
  /\ callOut # None
  /\ callIn.fn = "updateUserStats"
  /\ callIn.currentStats.currentStreak = 2
  /\ callIn.currentStats.longestStreak = 2
  /\ callOut.currentStreak = 1
  /\ callOut.longestStreak = 2
  /\ callOut.totalVotes = 3

\* ---- the order of the streak fields (SpecStreaks)
\* C39: for every history calculateStreak returns
\* 0 <= currentStreak <= longestStreak <= number of entries, and the ledger
\* updateUserStats returns has currentStreak <= longestStreak.
C39_StreaksOrdered ==
  callOut # None =>
    /\ 0 <= callOut.currentStreak
    /\ callOut.currentStreak <= callOut.longestStreak
    /\ callIn.fn = "calculateStreak" => callOut.longestStreak <= Len(callIn.history)

\* a history of four entries given out of order, a run of three days ending
\* today after a gap: the current streak and the longest are 3
C39_Witness ==
  /\ callOut # None
  /\ callIn.fn = "calculateStreak"
  /\ Len(callIn.history) = 4
  /\ callIn.history[1].day < callIn.history[2].day
  /\ callOut.currentStreak = 3
  /\ callOut.longestStreak = 3

\* a ledger returned with both fields at 3, from a stored history of two days
\* and a vote on the third
StreaksLevelInLedger ==
  /\ callOut # None
  /\ callIn.fn = "updateUserStats"
  /\ callOut.currentStreak = 3
  /\ callOut.longestStreak = 3

\* ---- key scopes (SpecScopes)
\* the lock keys of the day and of the participant and day p works on
OwnLocks(p) == {dailyFinalizeLock(op[p].day), userAwardLock(op[p].user, op[p].day)}

\* the step is one of invocation p
StepOf(p) == pc'[p] # pc[p]

AwardedSideBySide ==
  \E d \in ScopeDays, e \in ScopeDays :
     /\ locks[userAwardLock(1, d)] # None
     /\ locks[userAwardLock(2, e)] # None

\* ---- awarded and counted (SpecDay)
\* the users whose vote of day d for `choice` is marked awarded
AwardedFor(d, choice) ==
  {u \in Users : /\ userVote[u][d] # None
                 /\ userVote[u][d].pointsAwarded
                 /\ userVote[u][d].choice = choice}

\* C38 as stated: the votes of a day marked awarded are never more than the
\* votes its stored results count, in all and for either choice; a vote
\* stored before the day was settled and counted after it included.
C38_AwardedWereCounted ==
  \A d \in Days :
     LET cooperators == Cardinality(AwardedFor(d, "cooperate"))
         defectors == Cardinality(AwardedFor(d, "defect"))
     IN IF dailyResults[d] = None
          THEN cooperators + defectors = 0
          ELSE /\ cooperators <= dailyResults[d].cooperateCount
               /\ defectors <= dailyResults[d].defectCount
               /\ cooperators + defectors <= dailyResults[d].totalVotes

\* what holds: nobody is awarded for a day that has no stored results
AwardedOnlyWhenSettled ==
  \A d \in Days :
     dailyResults[d] = None =>
        AwardedFor(d, "cooperate") \cup AwardedFor(d, "defect") = {}

=============================================================================
